---- MODULE Spec2Model ----
(***************************************************************************)
(* A model of the macreleaser pipeline: the runner (pkg/pipeline), the     *)
(* registry of validation and execution pipes (pkg/pipe), the execution    *)
(* context with its Artifacts record (pkg/context) and the pipes           *)
(* themselves (internal/pipe/...).                                         *)
(*                                                                         *)
(* Strings are sequences of atoms.  An atom is a piece of text that the    *)
(* code never looks inside; the characters the code does inspect ("/",     *)
(* ".", "(", ")", the letters of "env", a leading "v", ...) are atoms of   *)
(* their own, so that filepath.Ext, strings.HasSuffix, filepath.IsLocal    *)
(* and the env(NAME) pattern are computed, not assumed.                    *)
(***************************************************************************)
EXTENDS Integers, Sequences, FiniteSets, TLC

\* ------------------------------------------------------------------ bounds
\* How many pipeline invocations (contexts) are made against one world.
MaxRuns == 2
\* Longest archive.formats list that is enumerated.
MaxFormats == 2

\* --------------------------------------------------------- string helpers
Range(s) == {s[i] : i \in 1..Len(s)}

HasPrefix(s, p) == Len(p) <= Len(s) /\ SubSeq(s, 1, Len(p)) = p

HasSuffix(s, p) == Len(p) <= Len(s) /\ SubSeq(s, Len(s) - Len(p) + 1, Len(s)) = p

TrimPrefix(s, p) == IF HasPrefix(s, p) THEN SubSeq(s, Len(p) + 1, Len(s)) ELSE s

TrimSuffix(s, p) == IF HasSuffix(s, p) THEN SubSeq(s, 1, Len(s) - Len(p)) ELSE s

\* strings.Contains
Contains(s, p) == \E i \in 1..(Len(s) - Len(p) + 1) : SubSeq(s, i, i + Len(p) - 1) = p

\* Index of the last atom a in s, 0 when there is none.
LastIndex(s, a) == IF \E i \in 1..Len(s) : s[i] = a
                   THEN CHOOSE i \in 1..Len(s) : s[i] = a /\ \A j \in (i+1)..Len(s) : s[j] # a
                   ELSE 0

\* filepath.Base for the clean, slash-separated paths the pipes build.
Base(p) == SubSeq(p, LastIndex(p, "/") + 1, Len(p))

\* filepath.Ext: the suffix of the last path element starting at its last dot.
Ext(p) == LET b == Base(p)
              k == LastIndex(b, ".")
          IN  IF k = 0 THEN <<>> ELSE SubSeq(b, k, Len(b))

\* filepath.Join of two elements: empty elements are ignored.
Join(a, b) == IF a = <<>> THEN b ELSE IF b = <<>> THEN a ELSE a \o <<"/">> \o b

\* The path elements of p, split at "/".
RECURSIVE Split(_)
Split(p) == LET k == IF \E i \in 1..Len(p) : p[i] = "/"
                     THEN CHOOSE i \in 1..Len(p) : p[i] = "/" /\ \A j \in 1..(i-1) : p[j] # "/"
                     ELSE 0
            IN  IF k = 0 THEN <<p>>
                ELSE <<SubSeq(p, 1, k - 1)>> \o Split(SubSeq(p, k + 1, Len(p)))

\* Depth reached by walking the elements; -1 as soon as ".." climbs out.
RECURSIVE Walk(_, _)
Walk(parts, depth) ==
    IF parts = <<>> THEN depth
    ELSE LET h == Head(parts)
         IN  IF h = <<>> \/ h = <<".">> THEN Walk(Tail(parts), depth)
             ELSE IF h = <<".", ".">>
                  THEN (IF depth = 0 THEN -1 ELSE Walk(Tail(parts), depth - 1))
                  ELSE Walk(Tail(parts), depth + 1)

\* IsLocal letting the empty path through.
IsLocal_OrEmpty(p) == \/ p = <<>>
                      \/ (p[1] # "/" /\ Walk(Split(p), 0) >= 0)

\* filepath.IsLocal: non-empty, not absolute, never climbs above its root.
IsLocal(p) == /\ p # <<>>
              /\ p[1] # "/"
              /\ Walk(Split(p), 0) >= 0

\* ----------------------------------------------------------------- errors
\* What a pipe's Run returns: nil, a skip-kind error or any other error.
Nil == [kind |-> "nil", msg |-> <<>>]

skipError(reason) == [kind |-> "skip", msg |-> <<reason>>]

Errorf(msg) == [kind |-> "err", msg |-> msg]

\* isSkip failing to recognise a SkipError.
isSkip_Never(err) == FALSE

\* isSkip
isSkip(err) == err.kind = "skip"

\* ------------------------------------------------------------ validation
\* The first match of env\(([^)]+)\) in value: <<start, NAME>>, or <<0, <<>>>>.
EnvMatchAt(value, i) ==
    /\ i + 5 <= Len(value)
    /\ SubSeq(value, i, i + 3) = <<"e", "n", "v", "(">>
    /\ value[i + 4] # ")"
    /\ \E j \in (i + 5)..Len(value) : value[j] = ")"

EnvMatchName(value, i) ==
    LET j == CHOOSE k \in (i + 5)..Len(value) :
                 value[k] = ")" /\ \A m \in (i + 4)..(k - 1) : value[m] # ")"
    IN  SubSeq(value, i + 4, j - 1)

\* CheckResolved reporting the last reference instead of the first.
CheckResolved_LastMatch(value, field) ==
    IF \E i \in 1..Len(value) : EnvMatchAt(value, i)
    THEN LET i == CHOOSE k \in 1..Len(value) :
                      EnvMatchAt(value, k) /\ \A m \in (k + 1)..Len(value) : ~EnvMatchAt(value, m)
         IN  Errorf(<<field, ": environment variable ">> \o EnvMatchName(value, i) \o <<" is not set">>)
    ELSE Nil

\* CheckResolved
CheckResolved(value, field) ==
    IF \E i \in 1..Len(value) : EnvMatchAt(value, i)
    THEN LET i == CHOOSE k \in 1..Len(value) :
                      EnvMatchAt(value, k) /\ \A m \in 1..(k - 1) : ~EnvMatchAt(value, m)
         IN  Errorf(<<field, ": environment variable ">> \o EnvMatchName(value, i) \o <<" is not set">>)
    ELSE Nil

\* ------------------------------------------------------------ config path
\* filepath.IsAbs
IsAbs(p) == p # <<>> /\ p[1] = "/"

\* The elements filepath.Clean keeps: "." and empty elements go, ".." takes
\* the element before it away, or goes itself at the root.
RECURSIVE CleanParts(_, _, _)
CleanParts(parts, kept, rooted) ==
    IF parts = <<>> THEN kept
    ELSE LET h == Head(parts)
         IN  IF h = <<>> \/ h = <<".">> THEN CleanParts(Tail(parts), kept, rooted)
             ELSE IF h = <<".", ".">>
             THEN IF kept # <<>> /\ kept[Len(kept)] # <<".", ".">>
                  THEN CleanParts(Tail(parts), SubSeq(kept, 1, Len(kept) - 1), rooted)
                  ELSE IF rooted THEN CleanParts(Tail(parts), kept, rooted)
                  ELSE CleanParts(Tail(parts), Append(kept, h), rooted)
             ELSE CleanParts(Tail(parts), Append(kept, h), rooted)

\* The elements put together again, "/" between them.
RECURSIVE JoinParts(_)
JoinParts(parts) ==
    IF parts = <<>> THEN <<>>
    ELSE IF Len(parts) = 1 THEN parts[1]
    ELSE parts[1] \o <<"/">> \o JoinParts(Tail(parts))

\* filepath.Clean
Clean(p) ==
    IF p = <<>> THEN <<".">>
    ELSE LET body == JoinParts(CleanParts(Split(p), <<>>, IsAbs(p)))
         IN  IF IsAbs(p) THEN <<"/">> \o body
             ELSE IF body = <<>> THEN <<".">> ELSE body

\* os.Getwd: the directory the command is run in.
Getwd == <<"/", "home", "/", "proj">>

\* filepath.Abs
Abs(p) == IF IsAbs(p) THEN Clean(p) ELSE Clean(Getwd \o <<"/">> \o p)

\* filepath.Rel(base, target) for a clean target at or below the clean base.
Rel(base, target) ==
    IF target = base THEN <<".">> ELSE SubSeq(target, Len(base) + 2, Len(target))

\* validateConfigPath
validateConfigPath(path) ==
    LET cleanPath == Clean(Abs(path))
        wd        == Clean(Getwd)
    IN  IF /\ HasPrefix(cleanPath, wd \o <<"/">>) \/ cleanPath = wd
           /\ ~IsLocal(Rel(wd, cleanPath))
        THEN [path |-> <<>>, err |-> Errorf(<<"invalid config path: path traversal detected">>)]
        ELSE [path |-> cleanPath, err |-> Nil]

\* readConfigFile: disk tells what is at a path, nothing when the path is
\* not in its domain.
readConfigFile(cleanPath, disk) ==
    IF cleanPath \notin DOMAIN disk
    THEN [data |-> "none",
          err  |-> Errorf(<<"failed to access config file: ", "no such file or directory">>)]
    ELSE IF disk[cleanPath] = "dir"
    THEN [data |-> "none", err |-> Errorf(<<"config path is not a regular file">>)]
    ELSE IF disk[cleanPath] = "large"
    THEN [data |-> "none", err |-> Errorf(<<"config file too large: maximum size is 1MB">>)]
    ELSE [data |-> disk[cleanPath], err |-> Nil]

\* LoadConfig: the path of the file it loaded, or the error.
LoadConfig(path, disk) ==
    IF path = <<>>
    THEN [loaded |-> <<>>, err |-> Errorf(<<"config file path is required">>)]
    ELSE LET valid == validateConfigPath(path)
         IN  IF valid.err # Nil THEN [loaded |-> <<>>, err |-> valid.err]
             ELSE LET read == readConfigFile(valid.path, disk)
                  IN  IF read.err # Nil THEN [loaded |-> <<>>, err |-> read.err]
                      ELSE IF read.data # "config"
                      THEN [loaded |-> <<>>, err |-> Errorf(<<"failed to parse config">>)]
                      ELSE [loaded |-> valid.path, err |-> Nil]

\* ----------------------------------------------------- env substitution
\* The process environment of the tests: X is set, E is set to the empty
\* string, Z holds a control character, W holds the text env(Y), every
\* other name is unset.
Environ == (<<"X">> :> <<"test-value">>)
           @@ (<<"E">> :> <<>>)
           @@ (<<"Z">> :> <<"bad", "\f", "value">>)
           @@ (<<"W">> :> <<"e", "n", "v", "(", "Y", ")">>)

\* [\x00-\x08\x0b\x0c\x0e-\x1f\x7f], of the characters used here.
disallowedControlChars == {"\f"}

\* The callback given to ReplaceAllStringFunc, failing on an unset variable.
replaceMatch_FailingOnUnset(key, match) ==
    IF key \notin DOMAIN Environ
    THEN [text |-> <<>>,
          err  |-> Errorf(<<"environment variable ">> \o key \o <<" is not set">>)]
    ELSE IF \E k \in 1..Len(Environ[key]) : Environ[key][k] \in disallowedControlChars
    THEN [text |-> <<>>,
          err  |-> Errorf(<<"environment variable ">> \o key
                            \o <<" contains disallowed control characters">>)]
    ELSE [text |-> Environ[key], err |-> Nil]

\* The callback given to ReplaceAllStringFunc: the text put in place of one
\* match, and the error it records.
replaceMatch(key, match) ==
    IF key \notin DOMAIN Environ
    THEN [text |-> match, err |-> Nil]
    ELSE IF \E k \in 1..Len(Environ[key]) : Environ[key][k] \in disallowedControlChars
    THEN [text |-> <<>>,
          err  |-> Errorf(<<"environment variable ">> \o key
                            \o <<" contains disallowed control characters">>)]
    ELSE [text |-> Environ[key], err |-> Nil]

\* envVarPattern.ReplaceAllStringFunc(input, ...) from position i on: the
\* matches are taken leftmost first and do not overlap; err is the one the
\* last failing callback recorded.
RECURSIVE ReplaceAllStringFunc(_, _)
ReplaceAllStringFunc(input, i) ==
    IF i > Len(input) THEN [text |-> <<>>, err |-> Nil]
    ELSE IF EnvMatchAt(input, i)
    THEN LET key  == EnvMatchName(input, i)
             last == i + 4 + Len(key)
             one  == replaceMatch(key, SubSeq(input, i, last))
             rest == ReplaceAllStringFunc(input, last + 1)
         IN  [text |-> one.text \o rest.text,
              err  |-> IF rest.err # Nil THEN rest.err ELSE one.err]
    ELSE LET rest == ReplaceAllStringFunc(input, i + 1)
         IN  [text |-> <<input[i]>> \o rest.text, err |-> rest.err]

\* replaceEnvVarsInString substituting nothing.
replaceEnvVarsInString_LeavingAll(input) == [value |-> input, err |-> Nil]

\* replaceEnvVarsInString
replaceEnvVarsInString(input) ==
    LET r == ReplaceAllStringFunc(input, 1)
    IN  IF r.err # Nil THEN [value |-> <<>>, err |-> r.err]
        ELSE [value |-> r.text, err |-> Nil]

\* The YAML syntax tree: a StringNode holds its text in Value, a
\* MappingValueNode a Key (a StringNode) and a Value, a MappingNode its
\* MappingValueNodes in Values, a SequenceNode its items in Values.
StringNode(text) == [type |-> "String", Value |-> text]

MappingValueNode(key, value) == [type |-> "MappingValue", Key |-> key, Value |-> value]

MappingNode(values) == [type |-> "Mapping", Values |-> values]

SequenceNode(values) == [type |-> "Sequence", Values |-> values]

\* The children of a MappingValueNode that substituteNode walks into, the
\* key included.
MappingValueChildren_WithKey(n) == {"Key", "Value"}

\* The children of a MappingValueNode that substituteNode walks into.
MappingValueChildren(n) == {"Value"}

\* substituteNode: the node as the walk leaves it, and the error returned.
\* A loop over Values returns at the first error, the nodes before it
\* already rewritten.
RECURSIVE substituteNode(_, _)
RECURSIVE substituteValues(_, _)
substituteNode(node, inValue) ==
    CASE node.type = "Mapping" ->
            LET r == substituteValues(node.Values, inValue)
            IN  [node |-> [node EXCEPT !.Values = r.nodes], err |-> r.err]
      [] node.type = "MappingValue" ->
            LET k == IF "Key" \in MappingValueChildren(node)
                     THEN substituteNode(node.Key, TRUE)
                     ELSE [node |-> node.Key, err |-> Nil]
                v == IF k.err = Nil /\ "Value" \in MappingValueChildren(node)
                     THEN substituteNode(node.Value, TRUE)
                     ELSE [node |-> node.Value, err |-> k.err]
            IN  [node |-> [node EXCEPT !.Key = k.node, !.Value = v.node], err |-> v.err]
      [] node.type = "Sequence" ->
            LET r == substituteValues(node.Values, TRUE)
            IN  [node |-> [node EXCEPT !.Values = r.nodes], err |-> r.err]
      [] node.type = "String" ->
            IF ~inValue THEN [node |-> node, err |-> Nil]
            ELSE LET r == replaceEnvVarsInString(node.Value)
                 IN  IF r.err # Nil THEN [node |-> node, err |-> r.err]
                     ELSE [node |-> [node EXCEPT !.Value = r.value], err |-> Nil]
      [] OTHER -> [node |-> node, err |-> Nil]

substituteValues(values, inValue) ==
    IF values = <<>> THEN [nodes |-> <<>>, err |-> Nil]
    ELSE LET r == substituteNode(Head(values), inValue)
         IN  IF r.err # Nil THEN [nodes |-> <<r.node>> \o Tail(values), err |-> r.err]
             ELSE LET rest == substituteValues(Tail(values), inValue)
                  IN  [nodes |-> <<r.node>> \o rest.nodes, err |-> rest.err]

\* SubstituteEnvVarsNode
SubstituteEnvVarsNode(node) == substituteNode(node, TRUE)

RequiredString(value, field) ==
    IF value = <<>> THEN Errorf(<<field, " is required">>) ELSE Nil

\* RequiredSlice content with an empty list.
RequiredSlice_Optional(values, field) == Nil

RequiredSlice(values, field) ==
    IF Len(values) = 0 THEN Errorf(<<field, " requires at least one item">>) ELSE Nil

AllOneOf(values, allowed, field) ==
    IF \E i \in 1..Len(values) : values[i] \notin allowed
    THEN LET i == CHOOSE k \in 1..Len(values) :
                      values[k] \notin allowed /\ \A m \in 1..(k - 1) : values[m] \in allowed
         IN  Errorf(<<"invalid ", field, ": ", values[i]>>)
    ELSE Nil

\* The first non-nil result of a sequence of checks, nil when all pass.
RECURSIVE FirstError(_)
FirstError(checks) ==
    IF checks = <<>> THEN Nil
    ELSE IF Head(checks).kind # "nil" THEN Head(checks)
    ELSE FirstError(Tail(checks))

\* ------------------------------------------------------------------ inputs
\* A value still holding an unresolved reference, as the loader leaves it.
Unresolved == <<"e", "n", "v", "(", "X", ")">>

FormatNames == {"zip", "dmg", "app", "tgz"}

RECURSIVE SeqsUpTo(_, _)
SeqsUpTo(S, n) ==
    IF n = 0 THEN {<<>>}
    ELSE LET shorter == SeqsUpTo(S, n - 1)
         IN  shorter \cup {Append(s, x) : s \in shorter, x \in S}

ConfigKeys == {"project.name", "project.scheme", "project.workspace",
               "build.configuration", "sign.identity",
               "notarize.apple_id", "notarize.team_id", "notarize.password",
               "archive.formats",
               "changelog.disable", "changelog.sort", "changelog.patterns",
               "release.github.owner", "release.github.repo", "release.github.draft",
               "homebrew.cask.name", "homebrew.cask.desc", "homebrew.cask.homepage",
               "homebrew.cask.license",
               "homebrew.tap.owner", "homebrew.tap.name", "homebrew.tap.token"}

\* What the driver and the machine supply besides the config file.
WorldKeys == {"Version", "Git.Tag", "GITHUB_TOKEN", "keychain", "workspaces", "projects",
              "GitHubClient", "HomebrewClient", "outputDirExists", "releaseExists",
              "caskInTap"}

InputKeys == ConfigKeys \cup WorldKeys

\* A well-formed project on a well-equipped machine.
Baseline ==
    [k \in InputKeys |->
        CASE k = "project.name"           -> <<"App">>
          [] k = "project.scheme"         -> <<"Sch">>
          [] k = "project.workspace"      -> <<>>
          [] k = "build.configuration"    -> <<"Release">>
          [] k = "sign.identity"          -> <<"Dev">>
          [] k = "notarize.apple_id"      -> <<"id">>
          [] k = "notarize.team_id"       -> <<"team">>
          [] k = "notarize.password"      -> <<"pw">>
          [] k = "archive.formats"        -> <<"dmg", "zip">>
          [] k = "changelog.disable"      -> FALSE
          [] k = "changelog.sort"         -> <<>>
          [] k = "changelog.patterns"     -> "valid"
          [] k = "release.github.owner"   -> <<"own">>
          [] k = "release.github.repo"    -> <<"rep">>
          [] k = "release.github.draft"   -> FALSE
          [] k = "homebrew.cask.name"     -> <<"cask">>
          [] k = "homebrew.cask.desc"     -> <<"desc">>
          [] k = "homebrew.cask.homepage" -> <<"home">>
          [] k = "homebrew.cask.license"  -> <<>>
          [] k = "homebrew.tap.owner"     -> <<"tapown">>
          [] k = "homebrew.tap.name"      -> <<"tap">>
          [] k = "homebrew.tap.token"     -> <<"taptok">>
          [] k = "Version"                -> <<"v", "1">>
          [] k = "Git.Tag"                -> <<"v", "1">>
          [] k = "GITHUB_TOKEN"           -> <<"tok">>
          [] k = "keychain"               -> << <<"Dev">> >>
          [] k = "workspaces"             -> << <<"App", ".", "xcworkspace">> >>
          [] k = "projects"               -> <<>>
          [] k = "GitHubClient"           -> "nil"
          [] k = "HomebrewClient"         -> "nil"
          [] k = "outputDirExists"        -> FALSE
          [] k = "releaseExists"          -> FALSE
          [] k = "caskInTap"              -> FALSE]

\* The other values each input is tried with.
Alternatives(k) ==
    CASE k = "project.name"           -> {<<>>, Unresolved, <<".", ".", "/", "evil">>}
      [] k = "project.scheme"         -> {<<>>, Unresolved}
      [] k = "project.workspace"      -> {<<"App", ".", "xcworkspace">>, <<"App", ".", "xcodeproj">>,
                                          <<"/", "App", ".", "xcworkspace">>, <<"App", ".", "txt">>}
      [] k = "build.configuration"    -> {<<>>, Unresolved}
      [] k = "sign.identity"          -> {<<>>, Unresolved}
      [] k = "notarize.apple_id"      -> {<<>>, Unresolved}
      [] k = "notarize.team_id"       -> {<<>>, Unresolved}
      [] k = "notarize.password"      -> {<<>>, Unresolved}
      [] k = "archive.formats"        -> SeqsUpTo(FormatNames, MaxFormats) \ {<<"dmg", "zip">>}
      [] k = "changelog.disable"      -> {TRUE}
      [] k = "changelog.sort"         -> {<<"asc">>, <<"desc">>, <<"random">>}
      [] k = "changelog.patterns"     -> {"bad exclude", "bad include", "untitled group", "bad group"}
      [] k = "release.github.owner"   -> {<<>>, Unresolved}
      [] k = "release.github.repo"    -> {<<>>, Unresolved}
      [] k = "release.github.draft"   -> {TRUE}
      [] k = "homebrew.cask.name"     -> {<<>>, Unresolved}
      [] k = "homebrew.cask.desc"     -> {<<>>, Unresolved, <<"say ", "\"", "hi", "\"">>}
      [] k = "homebrew.cask.homepage" -> {<<>>, Unresolved}
      [] k = "homebrew.cask.license"  -> {<<"MIT">>, Unresolved, <<"#", "{", "x", "}">>}
      [] k = "homebrew.tap.owner"     -> {<<>>, Unresolved}
      [] k = "homebrew.tap.name"      -> {<<>>, Unresolved}
      [] k = "homebrew.tap.token"     -> {<<>>, Unresolved}
      [] k = "Version"                -> {<<>>, <<"1">>}
      [] k = "Git.Tag"                -> {<<>>}
      [] k = "GITHUB_TOKEN"           -> {<<>>}
      [] k = "keychain"               -> {<<>>, << <<"Other">> >>, << <<"Other">>, <<"Dev">> >>}
      [] k = "workspaces"             -> {<<>>, << <<"Pods", ".", "xcworkspace">>, <<"App", ".", "xcworkspace">> >>,
                                          << <<"A", ".", "xcworkspace">>, <<"B", ".", "xcworkspace">> >>}
      [] k = "projects"               -> {<< <<"App", ".", "xcodeproj">> >>}
      [] k = "GitHubClient"           -> {"injected"}
      [] k = "HomebrewClient"         -> {"injected"}
      [] k = "outputDirExists"        -> {TRUE}
      [] k = "releaseExists"          -> {TRUE}
      [] k = "caskInTap"              -> {TRUE}

\* The scenarios tried: the baseline, and the baseline with one input changed.
\* The baseline with two or all three of the tap fields left empty.
TapScenarios ==
    {[Baseline EXCEPT !["homebrew.tap.owner"] = tap[1],
                      !["homebrew.tap.name"]  = tap[2],
                      !["homebrew.tap.token"] = tap[3]] :
        tap \in {<< <<>>, <<>>, <<>> >>,
                 << <<"tapown">>, <<>>, <<>> >>,
                 << <<>>, <<"tap">>, <<>> >>,
                 << <<>>, <<>>, <<"taptok">> >>}}

Scenarios ==
    {Baseline} \cup UNION {{[Baseline EXCEPT ![k] = v] : v \in Alternatives(k)} : k \in InputKeys}
               \cup TapScenarios

\* ------------------------------------------------------------------- state
VARIABLES
    Config,          \* the loaded configuration, by YAML path
    Version,         \* Context.Version
    Git,             \* Context.Git
    SkipPublish,     \* Context.SkipPublish
    SkipNotarize,    \* Context.SkipNotarize
    GitHubClient,    \* Context.GitHubClient: "nil", "injected" or "real"
    HomebrewClient,  \* Context.HomebrewClient: "nil", "injected" or "real"
    Artifacts,       \* Context.Artifacts
    ReleaseNotes,    \* Context.ReleaseNotes
    mode,            \* the entry point of the current invocation
    stage,           \* "idle", "validation", "execution", "mock" or "done"
    idx,             \* position of runPipes in the list it is running
    result,          \* what the entry point returned
    ran,             \* the pipes run by this invocation, with what each returned
    calls,           \* external tools and remote API calls made by this invocation
    dirs,            \* directories that exist
    files,           \* regular files that exist
    releases,        \* tags that have a GitHub release
    assets,          \* <<tag, file name>> of every uploaded release asset
    tapFiles,        \* files of the tap repository, each with its blob SHA
    machine,         \* environment, keychain, working directory, injected clients
    runs,            \* invocations made so far
    mockPipes,       \* a list of stub pipes, each with the error it returns
    call,            \* a function called on its own: its name and its argument
    out,             \* what that function returned
    procs            \* invocations running at the same time, each with its position

vars == <<Config, Version, Git, SkipPublish, SkipNotarize, GitHubClient, HomebrewClient,
          Artifacts, ReleaseNotes, mode, stage, idx, result, ran, calls, dirs, files,
          releases, assets, tapFiles, machine, runs, mockPipes, call, out, procs>>

\* No function is being called on its own.
NoCall == [fn |-> "none"]

\* The parts of the context no pipe assigns, but for the invocations running
\* at the same time.
inputs_but_procs == <<Config, Version, Git, SkipPublish, SkipNotarize, machine, runs, mockPipes,
                      call, out>>

\* The parts of the context no pipe assigns.
inputs == <<Config, Version, Git, SkipPublish, SkipNotarize, machine, runs, mockPipes,
            call, out, procs>>

\* The world outside the process.
remote == <<releases, assets, tapFiles>>

\* &Artifacts{}
EmptyArtifacts == [BuildOutputDir   |-> <<>>,
                   ArchivePath      |-> <<>>,
                   AppPath          |-> <<>>,
                   Packages         |-> <<>>,
                   ChangelogPath    |-> <<>>,
                   ReleaseURL       |-> <<>>,
                   HomebrewCaskPath |-> <<>>]

\* dist/<project.name>/<version>
OutputDir(name, version) == Join(Join(<<"dist">>, name), version)

\* Casks/<token>.rb
CaskPath(token) == <<"Casks", "/">> \o token \o <<".", "rb">>

\* The blob SHA of a cask that is in the tap from the start.
ExistingSHA == 7

\* NewContext, followed by the driver setting the version, the git state,
\* the option flags and (in tests) the injected clients.
NewContext(sc, skipPublish, skipNotarize) ==
    /\ Config = [k \in ConfigKeys |-> sc[k]]
    /\ Version = sc["Version"]
    /\ Git = [Tag |-> sc["Git.Tag"]]
    /\ SkipPublish = skipPublish
    /\ SkipNotarize = skipNotarize
    /\ GitHubClient = sc["GitHubClient"]
    /\ HomebrewClient = sc["HomebrewClient"]
    /\ Artifacts = EmptyArtifacts
    /\ ReleaseNotes = <<>>

Init ==
    \E sc \in Scenarios, skipPublish \in BOOLEAN, skipNotarize \in BOOLEAN :
        /\ NewContext(sc, skipPublish, skipNotarize)
        /\ mode = "none"
        /\ stage = "idle"
        /\ idx = 1
        /\ result = Nil
        /\ ran = <<>>
        /\ calls = <<>>
        /\ dirs = IF sc["outputDirExists"]
                  THEN {OutputDir(sc["project.name"], sc["Version"])} ELSE {}
        /\ files = {}
        /\ releases = IF sc["releaseExists"] THEN {sc["Version"]} ELSE {}
        /\ assets = {}
        /\ tapFiles = IF sc["caskInTap"]
                      THEN {[path |-> CaskPath(sc["homebrew.cask.name"]), sha |-> ExistingSHA]}
                      ELSE {}
        /\ machine = [GITHUB_TOKEN   |-> sc["GITHUB_TOKEN"],
                      keychain       |-> sc["keychain"],
                      workspaces     |-> sc["workspaces"],
                      projects       |-> sc["projects"],
                      GitHubClient   |-> sc["GitHubClient"],
                      HomebrewClient |-> sc["HomebrewClient"]]
        /\ runs = 1
        /\ mockPipes = <<>>
        /\ call = NoCall
        /\ out = NoCall
        /\ procs = <<>>

\* --------------------------------------------------------------- registry
project_CheckPipe   == "validating project configuration"
build_CheckPipe     == "validating build configuration"
sign_CheckPipe      == "validating signing configuration"
notarize_CheckPipe  == "validating notarization configuration"
archive_CheckPipe   == "validating archive configuration"
changelog_CheckPipe == "validating changelog configuration"
release_CheckPipe   == "validating release configuration"
homebrew_CheckPipe  == "validating homebrew configuration"

build_Pipe     == "building project"
sign_Pipe      == "signing application"
notarize_Pipe  == "notarizing application"
archive_Pipe   == "packaging archives"
changelog_Pipe == "generating changelog"
release_Pipe   == "publishing GitHub release"
homebrew_Pipe  == "generating Homebrew cask"

ValidationPipes == <<project_CheckPipe, build_CheckPipe, sign_CheckPipe, notarize_CheckPipe,
                     archive_CheckPipe, changelog_CheckPipe, release_CheckPipe,
                     homebrew_CheckPipe>>

\* The execution pipes with the release published before the changelog is generated.
ExecutionPipes_ReleaseBeforeChangelog ==
    <<build_Pipe, sign_Pipe, notarize_Pipe, archive_Pipe, release_Pipe, changelog_Pipe,
      homebrew_Pipe>>

\* ExecutionPipes
ExecutionPipes == <<build_Pipe, sign_Pipe, notarize_Pipe, archive_Pipe, changelog_Pipe,
                    release_Pipe, homebrew_Pipe>>

\* ----------------------------------------------------------------- runner
\* The list runPipes is working through.
CurrentPipes == CASE stage = "validation" -> ValidationPipes
                  [] stage = "execution"  -> ExecutionPipes
                  [] stage = "mock"       -> [i \in 1..Len(mockPipes) |-> mockPipes[i].name]
                  [] OTHER                -> <<>>

\* runPipes is about to call p.Run.
Running(p) == /\ stage \in {"validation", "execution"}
              /\ idx <= Len(CurrentPipes)
              /\ CurrentPipes[idx] = p

\* RunAll going on to the execution pipes whatever validation returned.
Return_WhateverValidationReturned(err) ==
    IF mode = "RunAll" /\ stage = "validation"
    THEN /\ stage' = "execution"
         /\ idx' = 1
         /\ result' = result
    ELSE /\ stage' = "done"
         /\ idx' = idx
         /\ result' = err

\* runPipes has returned err to the entry point: RunAll goes on to the
\* execution pipes when validation returned nil, every other return is final.
Return(err) ==
    IF mode = "RunAll" /\ stage = "validation" /\ err.kind = "nil"
    THEN /\ stage' = "execution"
         /\ idx' = 1
         /\ result' = result
    ELSE /\ stage' = "done"
         /\ idx' = idx
         /\ result' = err

\* runPipes returning the pipe's error as it is, without the pipe's name.
runPipes_Unprefixed(pipes, err) ==
    /\ ran' = Append(ran, [pipe |-> pipes[idx], ret |-> err])
    /\ IF err.kind # "nil" /\ ~isSkip(err)
       THEN Return(err)
       ELSE IF idx < Len(pipes)
            THEN /\ idx' = idx + 1
                 /\ UNCHANGED <<stage, result>>
            ELSE Return(Nil)

\* One turn of the loop of runPipes, the pipe at idx having returned err.
runPipes(pipes, err) ==
    /\ ran' = Append(ran, [pipe |-> pipes[idx], ret |-> err])
    /\ IF err.kind # "nil" /\ ~isSkip(err)
       THEN Return(Errorf(<<pipes[idx], ": ">> \o err.msg))
       ELSE IF idx < Len(pipes)
            THEN /\ idx' = idx + 1
                 /\ UNCHANGED <<stage, result>>
            ELSE Return(Nil)

RunValidation ==
    /\ stage = "idle"
    /\ mode \in {"none", "RunValidation"}
    /\ mode' = "RunValidation"
    /\ stage' = "validation"
    /\ idx' = 1
    /\ UNCHANGED <<inputs, remote, GitHubClient, HomebrewClient, Artifacts, ReleaseNotes,
                   result, ran, calls, dirs, files>>

RunExecution ==
    /\ stage = "idle"
    /\ mode \in {"none", "RunExecution"}
    /\ mode' = "RunExecution"
    /\ stage' = "execution"
    /\ idx' = 1
    /\ UNCHANGED <<inputs, remote, GitHubClient, HomebrewClient, Artifacts, ReleaseNotes,
                   result, ran, calls, dirs, files>>

RunAll ==
    /\ stage = "idle"
    /\ mode \in {"none", "RunAll"}
    /\ mode' = "RunAll"
    /\ stage' = "validation"
    /\ idx' = 1
    /\ UNCHANGED <<inputs, remote, GitHubClient, HomebrewClient, Artifacts, ReleaseNotes,
                   result, ran, calls, dirs, files>>

\* ------------------------------------------------------- validation pipes
\* What a validation pipe leaves alone: everything but the runner's position.
CheckFrame == UNCHANGED <<inputs, remote, GitHubClient, HomebrewClient, Artifacts,
                          ReleaseNotes, mode, calls, dirs, files>>

project_CheckPipe_Run ==
    LET cfg == Config
    IN  FirstError(<<
            CheckResolved(cfg["project.name"], "project.name"),
            CheckResolved(cfg["project.scheme"], "project.scheme"),
            RequiredString(cfg["project.name"], "project.name"),
            IF ~IsLocal(cfg["project.name"])
            THEN Errorf(<<"project.name contains a path traversal or absolute path: ">>
                        \o cfg["project.name"])
            ELSE Nil,
            RequiredString(cfg["project.scheme"], "project.scheme")>>)

build_CheckPipe_Run ==
    FirstError(<<
        CheckResolved(Config["build.configuration"], "build.configuration"),
        RequiredString(Config["build.configuration"], "build.configuration")>>)

sign_CheckPipe_Run ==
    RequiredString(Config["sign.identity"], "sign.identity")

\* The notarize check looking at its fields before the skip flag.
notarize_CheckPipe_Run_FieldsFirst ==
    LET err == FirstError(<<
                CheckResolved(Config["notarize.apple_id"], "notarize.apple_id"),
                CheckResolved(Config["notarize.team_id"], "notarize.team_id"),
                CheckResolved(Config["notarize.password"], "notarize.password")>>)
    IN  IF err.kind # "nil" THEN err
        ELSE IF SkipNotarize THEN skipError("notarization skipped via --skip-notarize")
        ELSE FirstError(<<
                RequiredString(Config["notarize.apple_id"], "notarize.apple_id"),
                RequiredString(Config["notarize.team_id"], "notarize.team_id"),
                RequiredString(Config["notarize.password"], "notarize.password")>>)

\* notarize.CheckPipe.Run
notarize_CheckPipe_Run ==
    IF SkipNotarize THEN skipError("notarization skipped via --skip-notarize")
    ELSE FirstError(<<
            CheckResolved(Config["notarize.apple_id"], "notarize.apple_id"),
            CheckResolved(Config["notarize.team_id"], "notarize.team_id"),
            CheckResolved(Config["notarize.password"], "notarize.password"),
            RequiredString(Config["notarize.apple_id"], "notarize.apple_id"),
            RequiredString(Config["notarize.team_id"], "notarize.team_id"),
            RequiredString(Config["notarize.password"], "notarize.password")>>)

archive_CheckPipe_Run ==
    FirstError(<<
        RequiredSlice(Config["archive.formats"], "archive.formats"),
        AllOneOf(Config["archive.formats"], {"dmg", "zip", "app"}, "archive.formats")>>)

changelog_CheckPipe_Run ==
    IF Config["changelog.disable"] THEN skipError("changelog disabled")
    ELSE IF Config["changelog.sort"] \notin {<<>>, <<"asc">>, <<"desc">>}
    THEN Errorf(<<"changelog.sort must be \"asc\" or \"desc\", got ">> \o Config["changelog.sort"])
    ELSE IF Config["changelog.patterns"] = "bad exclude"
    THEN Errorf(<<"changelog.filters.exclude: invalid regex">>)
    ELSE IF Config["changelog.patterns"] = "bad include"
    THEN Errorf(<<"changelog.filters.include: invalid regex">>)
    ELSE IF Config["changelog.patterns"] = "untitled group"
    THEN Errorf(<<"changelog.groups[0]: title is required">>)
    ELSE IF Config["changelog.patterns"] = "bad group"
    THEN Errorf(<<"changelog.groups[0]: invalid regexp">>)
    ELSE Nil

release_CheckPipe_Run ==
    IF SkipPublish THEN skipError("publishing skipped")
    ELSE FirstError(<<
            CheckResolved(Config["release.github.owner"], "release.github.owner"),
            CheckResolved(Config["release.github.repo"], "release.github.repo"),
            RequiredString(Config["release.github.owner"], "release.github.owner"),
            RequiredString(Config["release.github.repo"], "release.github.repo")>>)

\* isTapConfigured asking for all three fields.
isTapConfigured_AllSet == /\ Config["homebrew.tap.owner"] # <<>>
                          /\ Config["homebrew.tap.name"] # <<>>
                          /\ Config["homebrew.tap.token"] # <<>>

\* isTapConfigured
isTapConfigured == \/ Config["homebrew.tap.owner"] # <<>>
                   \/ Config["homebrew.tap.name"] # <<>>
                   \/ Config["homebrew.tap.token"] # <<>>

homebrew_CheckPipe_Run ==
    IF SkipPublish THEN skipError("homebrew publishing skipped")
    ELSE FirstError(<<
            CheckResolved(Config["homebrew.cask.name"], "homebrew.cask.name"),
            CheckResolved(Config["homebrew.cask.desc"], "homebrew.cask.desc"),
            CheckResolved(Config["homebrew.cask.homepage"], "homebrew.cask.homepage"),
            RequiredString(Config["homebrew.cask.name"], "homebrew.cask.name"),
            RequiredString(Config["homebrew.cask.desc"], "homebrew.cask.desc"),
            RequiredString(Config["homebrew.cask.homepage"], "homebrew.cask.homepage")>>
            \o (IF isTapConfigured
                THEN <<CheckResolved(Config["homebrew.tap.owner"], "homebrew.tap.owner"),
                       CheckResolved(Config["homebrew.tap.name"], "homebrew.tap.name"),
                       CheckResolved(Config["homebrew.tap.token"], "homebrew.tap.token"),
                       RequiredString(Config["homebrew.tap.owner"], "homebrew.tap.owner"),
                       RequiredString(Config["homebrew.tap.name"], "homebrew.tap.name"),
                       RequiredString(Config["homebrew.tap.token"], "homebrew.tap.token")>>
                ELSE <<>>))

ProjectCheck ==
    /\ Running(project_CheckPipe)
    /\ runPipes(ValidationPipes, project_CheckPipe_Run)
    /\ CheckFrame

BuildCheck ==
    /\ Running(build_CheckPipe)
    /\ runPipes(ValidationPipes, build_CheckPipe_Run)
    /\ CheckFrame

SignCheck ==
    /\ Running(sign_CheckPipe)
    /\ runPipes(ValidationPipes, sign_CheckPipe_Run)
    /\ CheckFrame

NotarizeCheck ==
    /\ Running(notarize_CheckPipe)
    /\ runPipes(ValidationPipes, notarize_CheckPipe_Run)
    /\ CheckFrame

\* The archive check recording the configured formats as packages.
ArchiveCheck_RecordingFormats ==
    /\ Running(archive_CheckPipe)
    /\ runPipes(ValidationPipes, archive_CheckPipe_Run)
    /\ Artifacts' = [Artifacts EXCEPT !.Packages = Config["archive.formats"]]
    /\ UNCHANGED <<inputs, remote, GitHubClient, HomebrewClient, ReleaseNotes, mode, calls,
                   dirs, files>>

ArchiveCheck ==
    /\ Running(archive_CheckPipe)
    /\ runPipes(ValidationPipes, archive_CheckPipe_Run)
    /\ CheckFrame

ChangelogCheck ==
    /\ Running(changelog_CheckPipe)
    /\ runPipes(ValidationPipes, changelog_CheckPipe_Run)
    /\ CheckFrame

ReleaseCheck ==
    /\ Running(release_CheckPipe)
    /\ runPipes(ValidationPipes, release_CheckPipe_Run)
    /\ CheckFrame

HomebrewCheck ==
    /\ Running(homebrew_CheckPipe)
    /\ runPipes(ValidationPipes, homebrew_CheckPipe_Run)
    /\ CheckFrame

\* -------------------------------------------------------- execution pipes
\* What an execution pipe can change, as it stands when the pipe is called.
\* A pipe's Run is the set of the outcomes it can have: what it returns and
\* what it has assigned, created or sent by then.
Here == [ret            |-> Nil,
         Artifacts      |-> Artifacts,
         ReleaseNotes   |-> ReleaseNotes,
         GitHubClient   |-> GitHubClient,
         HomebrewClient |-> HomebrewClient,
         calls          |-> calls,
         dirs           |-> dirs,
         files          |-> files,
         releases       |-> releases,
         assets         |-> assets,
         tapFiles       |-> tapFiles]

\* The outcome o of the pipe at idx takes effect and runPipes takes its turn.
Apply(o) ==
    /\ Artifacts' = o.Artifacts
    /\ ReleaseNotes' = o.ReleaseNotes
    /\ GitHubClient' = o.GitHubClient
    /\ HomebrewClient' = o.HomebrewClient
    /\ calls' = o.calls
    /\ dirs' = o.dirs
    /\ files' = o.files
    /\ releases' = o.releases
    /\ assets' = o.assets
    /\ tapFiles' = o.tapFiles
    /\ runPipes(ExecutionPipes, o.ret)
    /\ UNCHANGED <<inputs, mode>>

Call(tool, args) == [tool |-> tool, args |-> args]

\* filterPodsWorkspace
filterPodsWorkspace(workspaces) ==
    IF Len(workspaces) <= 1 THEN workspaces
    ELSE LET NotPods(ws) == ws # <<"Pods", ".", "xcworkspace">>
             filtered == SelectSeq(workspaces, NotPods)
         IN  IF Len(filtered) = 0 THEN workspaces ELSE filtered

\* DetectWorkspace over the working directory's entries: [err, Path, Type].
DetectWorkspace ==
    LET workspaces == filterPodsWorkspace(machine.workspaces)
        projects   == machine.projects
    IN  IF Len(workspaces) = 1
        THEN [err |-> Nil, Path |-> workspaces[1], Type |-> "Workspace"]
        ELSE IF Len(workspaces) > 1
        THEN [err |-> Errorf(<<"multiple .xcworkspace files found">>), Path |-> <<>>, Type |-> ""]
        ELSE IF Len(projects) = 1
        THEN [err |-> Nil, Path |-> projects[1], Type |-> "Project"]
        ELSE IF Len(projects) > 1
        THEN [err |-> Errorf(<<"multiple .xcodeproj files found">>), Path |-> <<>>, Type |-> ""]
        ELSE [err |-> Errorf(<<"no .xcworkspace or .xcodeproj found">>), Path |-> <<>>, Type |-> ""]

\* resolveWorkspace: [err, Path, Type].
resolveWorkspace ==
    LET configured == Config["project.workspace"]
    IN  IF configured # <<>>
        THEN IF ~IsLocal(configured)
             THEN [err |-> Errorf(<<"project.workspace contains a path traversal or absolute path: ">>
                                  \o configured), Path |-> <<>>, Type |-> ""]
             ELSE IF HasSuffix(configured, <<".", "xcworkspace">>)
             THEN [err |-> Nil, Path |-> configured, Type |-> "Workspace"]
             ELSE IF HasSuffix(configured, <<".", "xcodeproj">>)
             THEN [err |-> Nil, Path |-> configured, Type |-> "Project"]
             ELSE [err |-> Errorf(<<"project.workspace must end with .xcworkspace or .xcodeproj, got ">>
                                  \o configured), Path |-> <<>>, Type |-> ""]
        ELSE DetectWorkspace

\* The errors RunXcodebuild maps the tool's failures to.
XcodebuildErrors == {<<"workspace not found">>, <<"project not found">>,
                     <<"scheme ">> \o Config["project.scheme"] \o <<" not found">>,
                     <<"xcodebuild archive failed">>}

\* What <archivePath>/Products/Applications can hold after a build.
ArchivedApps == {<<>>, << <<"App", ".", "app">> >>}

\* extractApp, from the state s reached by Pipe.Run.
extractApp(s, archivePath, outputDir) ==
    {[s EXCEPT !.ret = Errorf(<<"failed to read .xcarchive Products/Applications">>)]}
    \cup UNION {
        LET apps == SelectSeq(entries, LAMBDA e : HasSuffix(e, <<".", "app">>))
        IN  IF apps = <<>>
            THEN {[s EXCEPT !.ret = Errorf(<<"no .app found in ">> \o archivePath)]}
            ELSE LET appName == apps[1]
                     dstApp  == Join(outputDir, appName)
                 IN  {[s EXCEPT !.ret = Errorf(<<"failed to copy .app to output directory">>)],
                      [s EXCEPT !.dirs = @ \cup {dstApp},
                                !.Artifacts.AppPath = dstApp]}
        : entries \in ArchivedApps}

\* build.Pipe.Run
build_Pipe_Run ==
    IF ~IsLocal(Config["project.name"])
    THEN {[Here EXCEPT !.ret = Errorf(<<"project.name contains a path traversal or absolute path: ">>
                                      \o Config["project.name"])]}
    ELSE IF ~IsLocal(Version)
    THEN {[Here EXCEPT !.ret = Errorf(<<"version contains a path traversal or absolute path: ">>
                                      \o Version)]}
    ELSE
    LET outputDir   == OutputDir(Config["project.name"], Version)
        s1          == [Here EXCEPT !.Artifacts.BuildOutputDir = outputDir]
        \* os.MkdirAll succeeds on a directory that is already there
        s2          == [s1 EXCEPT !.dirs = @ \cup {outputDir}]
        ws          == resolveWorkspace
        archivePath == Join(outputDir, Config["project.scheme"] \o <<".", "xcarchive">>)
        s3          == [s2 EXCEPT !.calls = Append(@, Call("xcodebuild",
                            <<ws.Path, Config["project.scheme"],
                              Config["build.configuration"], archivePath>>))]
        s4          == [s3 EXCEPT !.dirs = @ \cup {archivePath},
                                  !.Artifacts.ArchivePath = archivePath]
    IN  {[s1 EXCEPT !.ret = Errorf(<<"failed to create output directory ">> \o outputDir)]}
        \cup (IF ws.err.kind # "nil"
              THEN {[s2 EXCEPT !.ret = ws.err]}
              ELSE {[s2 EXCEPT !.ret = Errorf(<<"build failed: ", "xcodebuild not found">>)]}
                   \cup {[s3 EXCEPT !.ret = Errorf(<<"build failed: ">> \o e)] :
                            e \in XcodebuildErrors}
                   \cup extractApp(s4, archivePath, outputDir))

Build ==
    /\ Running(build_Pipe)
    /\ \E o \in build_Pipe_Run : Apply(o)

\* ValidateIdentity
ValidateIdentity(configuredIdentity, availableIdentities) ==
    IF \E i \in 1..Len(availableIdentities) : availableIdentities[i] = configuredIdentity
    THEN Nil
    ELSE IF Len(availableIdentities) = 0
    THEN Errorf(<<"signing identity ">> \o configuredIdentity
                \o <<" not found in keychain - no valid signing identities are installed">>)
    ELSE Errorf(<<"signing identity ">> \o configuredIdentity
                \o <<" not found in keychain", " available identities">>)

\* codesign never asked for the hardened runtime.
CodesignArgs_WithoutRuntime(identity, appPath, hardenedRuntime) ==
    << <<"--deep">>, <<"--force">>, <<"--sign">>, identity, appPath >>

\* The argument list RunCodesign hands to codesign.
CodesignArgs(identity, appPath, hardenedRuntime) ==
    << <<"--deep">>, <<"--force">> >>
    \o (IF hardenedRuntime THEN << <<"--options">>, <<"runtime">> >> ELSE <<>>)
    \o << <<"--sign">>, identity, appPath >>

\* RunCodesign, from the state s: the states it can leave, ret holding its error.
RunCodesign(s, identity, appPath, hardenedRuntime) ==
    LET called == [s EXCEPT !.calls = Append(@, Call("codesign",
                                  CodesignArgs(identity, appPath, hardenedRuntime)))]
    IN  {[s EXCEPT !.ret = Errorf(<<"codesign not found">>)],
         [called EXCEPT !.ret = Errorf(<<"codesign failed due to extended attributes">>)],
         [called EXCEPT !.ret = Errorf(<<"codesign failed">>)],
         called}

\* RunVerify
RunVerify(s, appPath) ==
    LET called == [s EXCEPT !.calls = Append(@, Call("codesign",
                        << <<"--verify">>, <<"--deep">>, <<"--strict">>, appPath >>))]
    IN  {[s EXCEPT !.ret = Errorf(<<"codesign not found">>)],
         [called EXCEPT !.ret = Errorf(<<"signature verification failed for ">> \o appPath)],
         called}

\* CheckIdentityInKeychain
CheckIdentityInKeychain(s, configuredIdentity) ==
    LET called == [s EXCEPT !.calls = Append(@, Call("security",
                        << <<"find-identity">>, <<"-v">>, <<"-p">>, <<"codesigning">> >>))]
    IN  {[s EXCEPT !.ret = Errorf(<<"security command not found">>)],
         [called EXCEPT !.ret = Errorf(<<"failed to list signing identities">>)],
         [called EXCEPT !.ret = ValidateIdentity(configuredIdentity, machine.keychain)]}

\* err wrapped by fmt.Errorf(prefix + ": %w", err)
Wrap(prefix, err) == Errorf(<<prefix, ": ">> \o err.msg)

\* Those of the states S that returned an error, each wrapped with prefix.
Failed(S, prefix) == {[s EXCEPT !.ret = Wrap(prefix, s.ret)] : s \in {t \in S : t.ret.kind # "nil"}}

\* Those of the states S in which the call returned nil.
Passed(S) == {s \in S : s.ret.kind = "nil"}

\* Hardened Runtime enabled whenever an Apple ID is configured.
hardenedRuntime_WheneverConfigured == Config["notarize.apple_id"] # <<>>

\* Hardened Runtime is enabled when notarization is configured and not skipped.
hardenedRuntime == ~SkipNotarize /\ Config["notarize.apple_id"] # <<>>

\* sign.Pipe.Run
sign_Pipe_Run ==
    IF Artifacts.AppPath = <<>>
    THEN {[Here EXCEPT !.ret = Errorf(<<"no .app found to sign">>)]}
    ELSE
    LET identity        == Config["sign.identity"]
        checked         == CheckIdentityInKeychain(Here, identity)
        signed          == UNION {RunCodesign(s, identity, Artifacts.AppPath, hardenedRuntime) :
                                    s \in Passed(checked)}
        verified        == UNION {RunVerify(s, Artifacts.AppPath) : s \in Passed(signed)}
    IN  Failed(checked, "identity validation failed")
        \cup Failed(signed, "signing failed")
        \cup Failed(verified, "signature verification failed")
        \cup Passed(verified)

Sign ==
    /\ Running(sign_Pipe)
    /\ \E o \in sign_Pipe_Run : Apply(o)

\* CreateZip recording the file it wrote as a package.
CreateZip_RecordingPackage(s, appPath, outputPath) ==
    LET called == [s EXCEPT !.calls = Append(@, Call("ditto", <<appPath, outputPath>>))]
    IN  {[s EXCEPT !.ret = Errorf(<<"ditto not found">>)],
         [called EXCEPT !.ret = Errorf(<<"failed to create ZIP archive">>)],
         [called EXCEPT !.files = @ \cup {outputPath},
                        !.Artifacts.Packages = Append(@, outputPath)]}

\* archive.CreateZip: ditto writes outputPath.
CreateZip(s, appPath, outputPath) ==
    LET called == [s EXCEPT !.calls = Append(@, Call("ditto", <<appPath, outputPath>>))]
    IN  {[s EXCEPT !.ret = Errorf(<<"ditto not found">>)],
         [called EXCEPT !.ret = Errorf(<<"failed to create ZIP archive">>)],
         [called EXCEPT !.files = @ \cup {outputPath}]}

\* archive.CreateDMG: hdiutil writes outputPath.
CreateDMG(s, appPath, outputPath, volumeName) ==
    LET called == [s EXCEPT !.calls = Append(@, Call("hdiutil", <<volumeName, appPath, outputPath>>))]
    IN  {[s EXCEPT !.ret = Errorf(<<"hdiutil not found">>)],
         [called EXCEPT !.ret = Errorf(<<"failed to create DMG image">>)],
         [called EXCEPT !.files = @ \cup {outputPath}]}

\* notarize.RunSubmit
RunSubmit(s, zipPath, appleID, teamID, password) ==
    LET called == [s EXCEPT !.calls = Append(@, Call("notarytool submit",
                        <<zipPath, appleID, teamID, password, <<"--wait">> >>))]
    IN  {[s EXCEPT !.ret = Errorf(<<"xcrun not found">>)],
         [called EXCEPT !.ret = Errorf(<<"notarytool authentication failed">>)],
         [called EXCEPT !.ret = Errorf(<<"Apple rejected the submission">>)],
         [called EXCEPT !.ret = Errorf(<<"notarytool submit failed">>)],
         called}

\* notarize.RunStaple
RunStaple(s, appPath) ==
    LET called == [s EXCEPT !.calls = Append(@, Call("stapler staple", <<appPath>>))]
    IN  {[s EXCEPT !.ret = Errorf(<<"xcrun not found">>)],
         [called EXCEPT !.ret = Errorf(<<"stapling failed - the notarization ticket was not found">>)],
         [called EXCEPT !.ret = Errorf(<<"stapler staple failed">>)],
         called}

\* notarize.RunAssess
RunAssess(s, appPath) ==
    LET called == [s EXCEPT !.calls = Append(@, Call("spctl --assess", <<appPath>>))]
    IN  {[s EXCEPT !.ret = Errorf(<<"spctl not found">>)],
         [called EXCEPT !.ret = Errorf(<<"Gatekeeper rejected the app">>)],
         [called EXCEPT !.ret = Errorf(<<"spctl assess failed">>)],
         called}

\* The clean-up of notarize.Pipe.Run returning the error of os.Remove.
removeZip_Fatal(s, zipPath) ==
    {[s EXCEPT !.ret = Errorf(<<"failed to remove temp ZIP">>)],
     [s EXCEPT !.files = @ \ {zipPath}]}

\* The clean-up of notarize.Pipe.Run: os.Remove(zipPath), a failure of
\* which is only logged.
removeZip(s, zipPath) ==
    {s, [s EXCEPT !.files = @ \ {zipPath}]}

\* The guard of notarize.Pipe.Run, asking for the credentials as well.
noApp_OrNoCredentials ==
    \/ Artifacts.AppPath = <<>>
    \/ Config["notarize.apple_id"] = <<>>
    \/ Config["notarize.team_id"] = <<>>
    \/ Config["notarize.password"] = <<>>

\* The guard of notarize.Pipe.Run: ctx.Artifacts.AppPath == ""
noApp == Artifacts.AppPath = <<>>

\* The return on a failed step, taking the temp ZIP away first.
returnFailure_Removing(s, zipPath) == [s EXCEPT !.files = @ \ {zipPath}]

\* return fmt.Errorf(...) after a failed submit, staple or assess: the pipe
\* returns as it stands.
returnFailure(s, zipPath) == s

\* notarize.Pipe.Run
notarize_Pipe_Run ==
    IF SkipNotarize
    THEN {[Here EXCEPT !.ret = skipError("notarization skipped via --skip-notarize")]}
    ELSE IF noApp
    THEN {[Here EXCEPT !.ret = Errorf(<<"no .app found to notarize">>)]}
    ELSE
    LET appName   == TrimSuffix(Base(Artifacts.AppPath), <<".", "app">>)
        zipPath   == Join(Artifacts.BuildOutputDir, appName \o <<"-notarize", ".", "zip">>)
        zipped    == CreateZip(Here, Artifacts.AppPath, zipPath)
        submitted == UNION {RunSubmit(s, zipPath, Config["notarize.apple_id"],
                                      Config["notarize.team_id"], Config["notarize.password"]) :
                              s \in Passed(zipped)}
        stapled   == UNION {RunStaple(s, Artifacts.AppPath) : s \in Passed(submitted)}
        assessed  == UNION {RunAssess(s, Artifacts.AppPath) : s \in Passed(stapled)}
    IN  Failed(zipped, "failed to create temp ZIP for notarization")
        \cup {returnFailure(s, zipPath) : s \in Failed(submitted, "notarization failed")}
        \cup {returnFailure(s, zipPath) : s \in Failed(stapled, "stapling failed")}
        \cup {returnFailure(s, zipPath) : s \in Failed(assessed, "Gatekeeper assessment failed")}
        \cup UNION {removeZip(s, zipPath) : s \in Passed(assessed)}

Notarize ==
    /\ Running(notarize_Pipe)
    /\ \E o \in notarize_Pipe_Run : Apply(o)

\* append putting the new package in front.
appendPackage_InFront(packages, path) == <<path>> \o packages

\* ctx.Artifacts.Packages = append(ctx.Artifacts.Packages, path)
appendPackage(packages, path) == Append(packages, path)

\* The loop of archive.Pipe.Run over the formats still to package, from s.
RECURSIVE ArchiveFormats(_, _)
ArchiveFormats(s, formats) ==
    IF formats = <<>> THEN {s}
    ELSE
    LET format    == Head(formats)
        outputDir == Artifacts.BuildOutputDir
        appName   == TrimSuffix(Base(Artifacts.AppPath), <<".", "app">>)
        zipPath   == Join(outputDir, appName \o <<"-">> \o Version \o <<".", "zip">>)
        dmgPath   == Join(outputDir, appName \o <<"-">> \o Version \o <<".", "dmg">>)
        zipped    == CreateZip(s, Artifacts.AppPath, zipPath)
        imaged    == CreateDMG(s, Artifacts.AppPath, dmgPath, appName \o <<" ">> \o Version)
    IN  CASE format = "zip" ->
                Failed(zipped, "ZIP packaging failed")
                \cup UNION {ArchiveFormats([t EXCEPT !.Artifacts.Packages = appendPackage(@, zipPath)],
                                           Tail(formats)) : t \in Passed(zipped)}
          [] format = "dmg" ->
                Failed(imaged, "DMG packaging failed")
                \cup UNION {ArchiveFormats([t EXCEPT !.Artifacts.Packages = appendPackage(@, dmgPath)],
                                           Tail(formats)) : t \in Passed(imaged)}
          [] format = "app" ->
                ArchiveFormats([s EXCEPT !.Artifacts.Packages = appendPackage(@, Artifacts.AppPath)],
                               Tail(formats))
          [] OTHER ->
                ArchiveFormats(s, Tail(formats))

\* archive.Pipe.Run packaging each format once, however often it is listed.
archive_Pipe_Run_OncePerFormat ==
    IF Artifacts.AppPath = <<>>
    THEN {[Here EXCEPT !.ret = Errorf(<<"no .app found to package">>)]}
    ELSE LET formats == Config["archive.formats"]
             firsts  == {i \in 1..Len(formats) : \A j \in 1..(i - 1) : formats[j] # formats[i]}
             once    == [k \in 1..Cardinality(firsts) |->
                            formats[CHOOSE i \in firsts : Cardinality({j \in firsts : j < i}) = k - 1]]
         IN  ArchiveFormats(Here, once)

\* archive.Pipe.Run
archive_Pipe_Run ==
    IF Artifacts.AppPath = <<>>
    THEN {[Here EXCEPT !.ret = Errorf(<<"no .app found to package">>)]}
    ELSE ArchiveFormats(Here, Config["archive.formats"])

Archive ==
    /\ Running(archive_Pipe)
    /\ \E o \in archive_Pipe_Run : Apply(o)

\* changelog.Generate: the regular expressions are compiled again here.
Generate(version) ==
    CASE Config["changelog.patterns"] = "bad include" ->
            [err |-> Errorf(<<"invalid include filter">>), content |-> <<>>]
      [] Config["changelog.patterns"] = "bad exclude" ->
            [err |-> Errorf(<<"invalid exclude filter">>), content |-> <<>>]
      [] Config["changelog.patterns"] = "bad group" ->
            [err |-> Errorf(<<"invalid group regexp">>), content |-> <<>>]
      [] OTHER ->
            [err |-> Nil, content |-> <<"## ">> \o version \o <<"\n">>]

\* changelog.Pipe.Run
changelog_Pipe_Run ==
    IF Config["changelog.disable"]
    THEN {[Here EXCEPT !.ret = skipError("changelog disabled")]}
    ELSE
    LET gitRef        == IF Git.Tag = <<>> THEN <<"HEAD">> ELSE Git.Tag
        s1            == [Here EXCEPT !.calls = Append(@, Call("git describe", <<gitRef>>))]
        s2            == [s1 EXCEPT !.calls = Append(@, Call("git log", <<gitRef>>))]
        generated     == Generate(Version)
        s3            == [s2 EXCEPT !.ReleaseNotes = generated.content]
        distDir       == IF Artifacts.BuildOutputDir = <<>> THEN <<"dist">>
                         ELSE Artifacts.BuildOutputDir
        s4            == [s3 EXCEPT !.dirs = @ \cup {distDir}]
        changelogPath == Join(distDir, <<"CHANGELOG", ".", "md">>)
    IN  {[s1 EXCEPT !.ret = Errorf(<<"failed to find previous tag">>)],
         [s2 EXCEPT !.ret = Errorf(<<"failed to get git log">>)]}
        \cup (IF generated.err.kind # "nil"
              THEN {[s2 EXCEPT !.ret = Wrap("failed to generate changelog", generated.err)]}
              ELSE {[s3 EXCEPT !.ret = Errorf(<<"failed to create dist directory">>)],
                    [s4 EXCEPT !.ret = Errorf(<<"failed to write changelog">>)],
                    [s4 EXCEPT !.files = @ \cup {changelogPath},
                               !.Artifacts.ChangelogPath = changelogPath]})

Changelog ==
    /\ Running(changelog_Pipe)
    /\ \E o \in changelog_Pipe_Run : Apply(o)

\* ContentTypeForAsset
ContentTypeForAsset(path) ==
    CASE Ext(path) = <<".", "zip">> -> "application/zip"
      [] Ext(path) = <<".", "dmg">> -> "application/x-apple-diskimage"
      [] OTHER                      -> "application/octet-stream"

\* A release that comes back without its page address.
HTMLURL_Missing(owner, repo, tag) == <<>>

\* The HTML URL GitHub gives a release.
HTMLURL(owner, repo, tag) ==
    <<"https://github.com/">> \o owner \o <<"/">> \o repo \o <<"/releases/tag/">> \o tag

\* A pipe putting a client of its own in the field whatever is there.
clientOrNew_Always(client) == "real"

\* if ctx.GitHubClient == nil { ... ctx.GitHubClient = client }, and the same
\* for ctx.HomebrewClient: the client a pipe goes on with.
clientOrNew(client) == IF client = "nil" THEN "real" ELSE client

\* A call of a method of the GitHub client, with the error it returned and
\* the blob SHA it was given or gave back (0 where there is none).
ClientCall(tool, args, err, sha) == [tool |-> tool, args |-> args, err |-> err, sha |-> sha]

\* CreateRelease replacing the release a tag already has.
CreateRelease_Upserting(s, owner, repo, tag, name, draft) ==
    LET failed(cause) == Errorf(<<"failed to create release in ">> \o owner \o <<"/">>
                                \o repo \o <<": ">> \o cause)
        called(err)   == [s EXCEPT !.calls = Append(@, ClientCall("CreateRelease",
                                                   <<owner, repo, tag, name>>, err, 0)),
                                   !.ret = err]
    IN  {called(failed(<<"connection reset">>)),
         [called(Nil) EXCEPT !.releases = @ \cup {tag}]}

\* Client.CreateRelease: GitHub refuses a second release for a tag.
CreateRelease(s, owner, repo, tag, name, draft) ==
    LET failed(cause) == Errorf(<<"failed to create release in ">> \o owner \o <<"/">>
                                \o repo \o <<": ">> \o cause)
        called(err)   == [s EXCEPT !.calls = Append(@, ClientCall("CreateRelease",
                                                   <<owner, repo, tag, name>>, err, 0)),
                                   !.ret = err]
    IN  {called(failed(<<"connection reset">>))}
        \cup (IF tag \in s.releases
              THEN {called(failed(<<"422 Validation Failed ", "already_exists">>))}
              ELSE {[called(Nil) EXCEPT !.releases = @ \cup {tag}]})

\* os.Stat taking whatever is listed for a regular file.
isRegular_Always(s, pkg) == TRUE

\* os.Stat(pkg) succeeding on a regular file: err == nil && info.Mode().IsRegular()
isRegular(s, pkg) == pkg \in s.files

\* The upload loop going on to the remaining packages after a failed upload.
onUploadError_Continue(s, err, rest) == rest

\* The upload loop on a failed upload: return the error; rest is what
\* visiting the remaining packages would do.
onUploadError(s, err, rest) == {[s EXCEPT !.ret = err]}

\* The upload loop of release.Pipe.Run over the packages still to visit.
RECURSIVE UploadPackages(_, _)
UploadPackages(s, pkgs) ==
    IF pkgs = <<>> THEN {s}
    ELSE
    LET pkg         == Head(pkgs)
        called(err) == [s EXCEPT !.calls = Append(@, ClientCall("UploadReleaseAsset",
                                            <<pkg, <<ContentTypeForAsset(pkg)>> >>, err, 0))]
        failed      == Errorf(<<"failed to upload asset ">> \o Base(pkg))
    IN  IF ~isRegular(s, pkg)
        THEN UploadPackages(s, Tail(pkgs))
        ELSE onUploadError(called(failed), failed, UploadPackages(called(failed), Tail(pkgs)))
             \cup (IF <<Version, Base(pkg)>> \in s.assets
                   THEN {}
                   ELSE UploadPackages([called(Nil) EXCEPT !.assets = @ \cup {<<Version, Base(pkg)>>}],
                                       Tail(pkgs)))

\* The error release.Pipe.Run returns when CreateRelease returned err.
releaseError_Wrapped(err) == Wrap("failed to create GitHub release", err)

\* The error release.Pipe.Run returns when CreateRelease returned err.
releaseError(err) ==
    IF Contains(err.msg, <<"already_exists">>)
    THEN Errorf(<<"release for tag ">> \o Version
                \o <<" ", "already exists",
                     " - delete the existing release or use a different version tag">>)
    ELSE Wrap("failed to create GitHub release", err)

\* The release going ahead whatever the packages.
noPackages_Unchecked == FALSE

\* len(ctx.Artifacts.Packages) == 0
noPackages == Len(Artifacts.Packages) = 0

\* release.Pipe.Run past its skip guard.
release_Publish ==
    IF noPackages
    THEN {[Here EXCEPT !.ret = Errorf(<<"no packages to release">>)]}
    ELSE IF GitHubClient = "nil" /\ machine.GITHUB_TOKEN = <<>>
    THEN {[Here EXCEPT !.ret = Errorf(<<"GITHUB_TOKEN environment variable is required for publishing">>)]}
    ELSE
    LET s1          == [Here EXCEPT !.GitHubClient = clientOrNew(@)]
        owner       == Config["release.github.owner"]
        repo        == Config["release.github.repo"]
        releaseName == Config["project.name"] \o <<" ">> \o Version
        created     == CreateRelease(s1, owner, repo, Version, releaseName,
                                     Config["release.github.draft"])
        refused     == {s \in created : s.ret.kind # "nil"}
    IN  {[s EXCEPT !.ret = releaseError(s.ret)] : s \in refused}
        \cup UNION {UploadPackages([s EXCEPT !.Artifacts.ReleaseURL = HTMLURL(owner, repo, Version)],
                                   Artifacts.Packages) : s \in Passed(created)}

\* The release pipe publishing whatever the skip flag says.
release_Pipe_Run_Unguarded == release_Publish

\* release.Pipe.Run
release_Pipe_Run ==
    IF SkipPublish
    THEN {[Here EXCEPT !.ret = skipError("publishing skipped")]}
    ELSE release_Publish

Release ==
    /\ Running(release_Pipe)
    /\ \E o \in release_Pipe_Run : Apply(o)

\* SelectPackage taking the first archive of either kind.
SelectPackage_FirstArchive(packages) ==
    LET IsArchive(p) == Ext(p) \in {<<".", "zip">>, <<".", "dmg">>}
    IN  IF SelectSeq(packages, IsArchive) # <<>>
        THEN [err |-> Nil, path |-> SelectSeq(packages, IsArchive)[1]]
        ELSE [err |-> Errorf(<<"no .zip or .dmg", " package found for Homebrew cask">>),
              path |-> <<>>]

\* SelectPackage: [err, path].
SelectPackage(packages) ==
    LET IsZip(p) == Ext(p) = <<".", "zip">>
        IsDmg(p) == Ext(p) = <<".", "dmg">>
    IN  IF SelectSeq(packages, IsZip) # <<>>
        THEN [err |-> Nil, path |-> SelectSeq(packages, IsZip)[1]]
        ELSE IF SelectSeq(packages, IsDmg) # <<>>
        THEN [err |-> Nil, path |-> SelectSeq(packages, IsDmg)[1]]
        ELSE [err |-> Errorf(<<"no .zip or .dmg", " package found for Homebrew cask">>),
              path |-> <<>>]

\* The lowercase hex digest of the file at filePath.
SHA256Of(filePath) == <<"sha256(">> \o filePath \o <<")">>

\* url.PathEscape: of the characters a file name here can hold, the space is
\* the one it rewrites.
PathEscape(name) == [i \in 1..Len(name) |-> IF name[i] = " " THEN "%20" ELSE name[i]]

\* BuildAssetURL pointing at the latest release, not at the tag.
BuildAssetURL_Latest(owner, repo, tag, filename) ==
    <<"https://github.com/">> \o owner \o <<"/">> \o repo \o <<"/releases/latest/download/">>
    \o PathEscape(filename)

\* BuildAssetURL
BuildAssetURL(owner, repo, tag, filename) ==
    <<"https://github.com/">> \o owner \o <<"/">> \o repo \o <<"/releases/download/">>
    \o tag \o <<"/">> \o PathEscape(filename)

\* validateCaskField letting line breaks through.
validateCaskField_AllowingNewlines(name, value) ==
    IF \E i \in 1..Len(value) : value[i] \in {"\"", "\\"}
    THEN Errorf(<<"invalid ", name, ": must not contain double quotes, backslashes, or newlines">>)
    ELSE IF Contains(value, <<"#", "{">>)
    THEN Errorf(<<"invalid ", name, ": must not contain Ruby interpolation sequences">>)
    ELSE Nil

\* validateCaskField
validateCaskField(name, value) ==
    IF \E i \in 1..Len(value) : value[i] \in {"\"", "\n", "\r", "\\"}
    THEN Errorf(<<"invalid ", name, ": must not contain double quotes, backslashes, or newlines">>)
    ELSE IF Contains(value, <<"#", "{">>)
    THEN Errorf(<<"invalid ", name, ": must not contain Ruby interpolation sequences">>)
    ELSE Nil

\* The fields RenderCask validates, by the name it reports them under.
CaskFields(data) ==
    [name \in {"token", "version", "url", "name", "desc", "homepage", "app_name", "license"} |->
        CASE name = "token"    -> data.Token
          [] name = "version"  -> data.Version
          [] name = "url"      -> data.URL
          [] name = "name"     -> data.Name
          [] name = "desc"     -> data.Desc
          [] name = "homepage" -> data.Homepage
          [] name = "app_name" -> data.AppName
          [] name = "license"  -> data.License]

\* The cask template, executed on data.
caskTemplate(data) ==
    <<"cask ", "\"">> \o data.Token \o <<"\"", " do", "\n">>
    \o <<"  version ", "\"">> \o data.Version \o <<"\"", "\n">>
    \o <<"  sha256 ", "\"">> \o data.SHA256 \o <<"\"", "\n", "\n">>
    \o <<"  url ", "\"">> \o data.URL \o <<"\"", "\n">>
    \o <<"  name ", "\"">> \o data.Name \o <<"\"", "\n">>
    \o <<"  desc ", "\"">> \o data.Desc \o <<"\"", "\n">>
    \o <<"  homepage ", "\"">> \o data.Homepage \o <<"\"">>
    \o (IF data.License # <<>>
        THEN <<"\n", "\n", "  license ", "\"">> \o data.License \o <<"\"">>
        ELSE <<>>)
    \o <<"\n", "\n", "  app ", "\"">> \o data.AppName \o <<"\"", "\n", "end", "\n">>

\* RenderCask: the [err, content] it can return; Go visits the map of
\* fields in no fixed order, so any invalid field may be the one reported.
RenderCask(data) ==
    LET fields  == CaskFields(data)
        invalid == {name \in DOMAIN fields : validateCaskField(name, fields[name]).kind # "nil"}
    IN  IF invalid # {}
        THEN {[err |-> validateCaskField(name, fields[name]), content |-> <<>>] : name \in invalid}
        ELSE {[err |-> Nil, content |-> caskTemplate(data)]}

\* GetFileContents giving back no blob SHA with the file it read.
GetFileContents_WithoutSHA(s, owner, repo, path) ==
    LET called(err, sha) == [s EXCEPT !.calls = Append(@, ClientCall("GetFileContents",
                                                    <<owner, repo, path>>, err, sha)),
                                      !.ret = err]
        failed(cause) == Errorf(<<"failed to get contents of ">> \o path \o <<" in ">> \o owner
                                \o <<"/">> \o repo \o <<": ">> \o cause)
        found  == {f \in s.tapFiles : f.path = path}
    IN  {[st |-> called(failed(<<"401", " Bad credentials">>), 0), sha |-> 0]}
        \cup (IF found = {}
              THEN {[st |-> called(failed(<<"404", " Not Found">>), 0), sha |-> 0]}
              ELSE {[st |-> called(Nil, 0), sha |-> 0]})

\* Client.GetFileContents on the tap: the states it can leave and, in
\* sha, the blob SHA of the file it read.
GetFileContents(s, owner, repo, path) ==
    LET called(err, sha) == [s EXCEPT !.calls = Append(@, ClientCall("GetFileContents",
                                                    <<owner, repo, path>>, err, sha)),
                                      !.ret = err]
        failed(cause) == Errorf(<<"failed to get contents of ">> \o path \o <<" in ">> \o owner
                                \o <<"/">> \o repo \o <<": ">> \o cause)
        found  == {f \in s.tapFiles : f.path = path}
    IN  {[st |-> called(failed(<<"401", " Bad credentials">>), 0), sha |-> 0]}
        \cup (IF found = {}
              THEN {[st |-> called(failed(<<"404", " Not Found">>), 0), sha |-> 0]}
              ELSE {[st |-> called(Nil, f.sha), sha |-> f.sha] : f \in found})

\* Client.CreateFile: the Contents API creates only what is not there.
CreateFile(s, owner, repo, path, message, content) ==
    LET called(err) == [s EXCEPT !.calls = Append(@, [tool |-> "CreateFile",
                                               args |-> <<owner, repo, path, message>>,
                                               err |-> err, sha |-> 0, content |-> content]),
                                 !.ret = err]
        failed(cause) == called(Errorf(<<"failed to create file ">> \o path \o <<" in ">>
                                       \o owner \o <<"/">> \o repo \o <<": ">> \o cause))
    IN  IF \E f \in s.tapFiles : f.path = path
        THEN {failed(<<"connection reset">>), failed(<<"422", " \"sha\" wasn't supplied">>)}
        ELSE {failed(<<"connection reset">>), [called(Nil) EXCEPT !.tapFiles = @ \cup {[path |-> path, sha |-> 1]}]}

\* Client.UpdateFile: the blob SHA must be the current one.
UpdateFile(s, owner, repo, path, message, content, sha) ==
    LET called(err) == [s EXCEPT !.calls = Append(@, [tool |-> "UpdateFile",
                                               args |-> <<owner, repo, path, message>>,
                                               err |-> err, sha |-> sha, content |-> content]),
                                 !.ret = err]
        failed(cause) == called(Errorf(<<"failed to update file ">> \o path \o <<" in ">>
                                       \o owner \o <<"/">> \o repo \o <<": ">> \o cause))
    IN  IF [path |-> path, sha |-> sha] \in s.tapFiles
        THEN {failed(<<"connection reset">>),
              [called(Nil) EXCEPT !.tapFiles = (@ \ {[path |-> path, sha |-> sha]})
                                               \cup {[path |-> path, sha |-> sha + 1]}]}
        ELSE {failed(<<"connection reset">>), failed(<<"409", " does not match">>)}

\* Every read error taken for a missing file.
readSaysMissing_Always(err) == TRUE

\* The test commitToTap makes of a read error: does it say the file is missing?
readSaysMissing(err) == Contains(err.msg, <<"404">>)

\* commitToTap, from the state s reached by Pipe.Run.
commitToTap(s, data, caskContent) ==
    LET tapOwner == Config["homebrew.tap.owner"]
        tapName  == Config["homebrew.tap.name"]
        tap      == tapOwner \o <<"/">> \o tapName
    IN  IF s.HomebrewClient = "nil" /\ Config["homebrew.tap.token"] = <<>>
        THEN {[s EXCEPT !.ret = Errorf(<<"failed to create GitHub client for tap: ",
                                         "GitHub token is required">>)]}
        ELSE
        LET s1       == [s EXCEPT !.HomebrewClient = clientOrNew(@)]
            caskPath == CaskPath(data.Token)
            reads    == GetFileContents(s1, tapOwner, tapName, caskPath)
        IN  UNION {
              IF r.st.ret.kind = "nil"
              THEN LET written == UpdateFile(r.st, tapOwner, tapName, caskPath,
                                        <<"Update ">> \o data.Token \o <<" to ">> \o data.Version,
                                        caskContent, r.sha)
                   IN  Failed(written, "failed to commit cask to tap") \cup Passed(written)
              ELSE IF readSaysMissing(r.st.ret)
              THEN LET written == CreateFile([r.st EXCEPT !.ret = Nil], tapOwner, tapName, caskPath,
                                        <<"Add ">> \o data.Token \o <<" ">> \o data.Version,
                                        caskContent)
                   IN  Failed(written, "failed to commit cask to tap") \cup Passed(written)
              ELSE {[r.st EXCEPT !.ret = Wrap("failed to check existing cask in tap", r.st.ret)]}
            : r \in reads}

\* homebrew.Pipe.Run
homebrew_Pipe_Run ==
    IF SkipPublish
    THEN {[Here EXCEPT !.ret = skipError("homebrew publishing skipped")]}
    ELSE IF Len(Artifacts.Packages) = 0
    THEN {[Here EXCEPT !.ret = Errorf(<<"no packages found for Homebrew cask">>)]}
    ELSE IF Artifacts.AppPath = <<>>
    THEN {[Here EXCEPT !.ret = Errorf(<<"no .app path found">>)]}
    ELSE
    LET selected == SelectPackage(Artifacts.Packages)
    IN  IF selected.err.kind # "nil"
        THEN {[Here EXCEPT !.ret = selected.err]}
        ELSE
        LET filename == Base(selected.path)
        IN  IF selected.path \notin files
            THEN {[Here EXCEPT !.ret = Errorf(<<"failed to compute SHA256 for ">> \o filename)]}
            ELSE
            LET data == [Token    |-> Config["homebrew.cask.name"],
                         Version  |-> TrimPrefix(Version, <<"v">>),
                         SHA256   |-> SHA256Of(selected.path),
                         URL      |-> BuildAssetURL(Config["release.github.owner"],
                                                    Config["release.github.repo"],
                                                    Version, filename),
                         Name     |-> Config["project.name"],
                         Desc     |-> Config["homebrew.cask.desc"],
                         Homepage |-> Config["homebrew.cask.homepage"],
                         AppName  |-> Base(Artifacts.AppPath),
                         License  |-> Config["homebrew.cask.license"]]
                localPath == Join(Artifacts.BuildOutputDir, data.Token \o <<".", "rb">>)
            IN  UNION {
                  IF rendered.err.kind # "nil"
                  THEN {[Here EXCEPT !.ret = rendered.err]}
                  ELSE LET s1 == [Here EXCEPT !.files = @ \cup {localPath},
                                              !.Artifacts.HomebrewCaskPath = localPath]
                       IN  {[Here EXCEPT !.ret = Errorf(<<"failed to write cask file">>)]}
                           \cup (IF isTapConfigured
                                 THEN commitToTap(s1, data, rendered.content)
                                 ELSE {s1})
                : rendered \in RenderCask(data)}

Homebrew ==
    /\ Running(homebrew_Pipe)
    /\ \E o \in homebrew_Pipe_Run : Apply(o)

\* ------------------------------------------------------------- the driver
\* The operator runs the same command again on the same machine: a fresh
\* context with the same config and option flags, the world as it was left.
NewRun ==
    /\ stage = "done"
    /\ runs < MaxRuns
    /\ runs' = runs + 1
    /\ GitHubClient' = machine.GitHubClient
    /\ HomebrewClient' = machine.HomebrewClient
    /\ Artifacts' = EmptyArtifacts
    /\ ReleaseNotes' = <<>>
    /\ stage' = "idle"
    /\ idx' = 1
    /\ result' = Nil
    /\ ran' = <<>>
    /\ calls' = <<>>
    /\ UNCHANGED <<Config, Version, Git, SkipPublish, SkipNotarize, machine, mockPipes, call, out, procs,
                   mode, dirs, files, remote>>

Next == \/ RunValidation \/ RunExecution \/ RunAll
        \/ ProjectCheck \/ BuildCheck \/ SignCheck \/ NotarizeCheck
        \/ ArchiveCheck \/ ChangelogCheck \/ ReleaseCheck \/ HomebrewCheck
        \/ Build \/ Sign \/ Notarize \/ Archive \/ Changelog \/ Release \/ Homebrew
        \/ NewRun

Spec == Init /\ [][Next]_vars

\* ------------------------------------------------------------- stub pipes
\* Longest list of stub pipes that runPipes is tried on.
MaxMockPipes == 3

\* What a stub pipe returns: nil, a skip or another error.
MockErrors == {Nil, skipError("not needed"), Errorf(<<"something failed">>)}

MockNames == <<"step1", "step2", "step3", "step4", "step5">>

\* Every list of up to MaxMockPipes stub pipes.
MockLists ==
    {[i \in 1..Len(errs) |-> [name |-> MockNames[i], err |-> errs[i]]] :
        errs \in SeqsUpTo(MockErrors, MaxMockPipes) \ {<<>>}}

\* runPipes(newContext(), pipes), for a list of stub pipes.
MockInit ==
    /\ NewContext(Baseline, FALSE, FALSE)
    /\ mockPipes \in MockLists
    /\ call = NoCall
    /\ out = NoCall
    /\ procs = <<>>
    /\ mode = "runPipes"
    /\ stage = "mock"
    /\ idx = 1
    /\ result = Nil
    /\ ran = <<>>
    /\ calls = <<>>
    /\ dirs = {}
    /\ files = {}
    /\ releases = {}
    /\ assets = {}
    /\ tapFiles = {}
    /\ machine = [GITHUB_TOKEN   |-> Baseline["GITHUB_TOKEN"],
                  keychain       |-> Baseline["keychain"],
                  workspaces     |-> Baseline["workspaces"],
                  projects       |-> Baseline["projects"],
                  GitHubClient   |-> Baseline["GitHubClient"],
                  HomebrewClient |-> Baseline["HomebrewClient"]]
    /\ runs = 1

\* mockPipe.Run returns the error the stub was built with.
MockRun ==
    /\ stage = "mock"
    /\ idx <= Len(mockPipes)
    /\ runPipes(CurrentPipes, mockPipes[idx].err)
    /\ UNCHANGED <<inputs, remote, GitHubClient, HomebrewClient, Artifacts, ReleaseNotes,
                   mode, calls, dirs, files>>

MockNext == MockRun

MockSpec == MockInit /\ [][MockNext]_vars

\* ------------------------------------------------- a pipe run on its own
\* Longest list of packages the Homebrew pipe is handed.
MaxPackages == 3

\* The packages a test context can hold.
PackagePaths == {<<"tmp", "/", "A", ".", "zip">>, <<"tmp", "/", "B", ".", "zip">>,
                 <<"tmp", "/", "A", ".", "dmg">>, <<"tmp", "/", "B", ".", "dmg">>,
                 <<"tmp", "/", "A", ".", "app">>}

\* newTestContext: a context whose artifacts are already there, the tap and
\* the clients set as the test wants them; Pipe{}.Run(ctx) is to be called.
PipeInit ==
    \E sc \in Scenarios, skipPublish \in BOOLEAN, pkgs \in SeqsUpTo(PackagePaths, MaxPackages) :
        /\ sc = Baseline \/ pkgs = << <<"tmp", "/", "A", ".", "zip">> >>
        /\ Config = [k \in ConfigKeys |-> sc[k]]
        /\ Version = sc["Version"]
        /\ Git = [Tag |-> sc["Git.Tag"]]
        /\ SkipPublish = skipPublish
        /\ SkipNotarize = FALSE
        /\ GitHubClient = sc["GitHubClient"]
        /\ HomebrewClient = sc["HomebrewClient"]
        /\ Artifacts = [EmptyArtifacts EXCEPT !.BuildOutputDir = <<"tmp">>,
                                              !.AppPath = <<"/", "path", "/", "App", ".", "app">>,
                                              !.Packages = pkgs]
        /\ ReleaseNotes = <<>>
        /\ mode = "Pipe.Run"
        /\ stage = "pipe"
        /\ idx = 1
        /\ result = Nil
        /\ ran = <<>>
        /\ calls = <<>>
        /\ dirs = {<<"tmp">>}
        /\ files = {pkgs[i] : i \in {j \in 1..Len(pkgs) : Ext(pkgs[j]) # <<".", "app">>}}
        /\ releases = IF sc["releaseExists"] THEN {sc["Version"]} ELSE {}
        /\ assets = {}
        /\ tapFiles = IF sc["caskInTap"]
                      THEN {[path |-> CaskPath(sc["homebrew.cask.name"]), sha |-> ExistingSHA]}
                      ELSE {}
        /\ machine = [GITHUB_TOKEN   |-> sc["GITHUB_TOKEN"],
                      keychain       |-> sc["keychain"],
                      workspaces     |-> sc["workspaces"],
                      projects       |-> sc["projects"],
                      GitHubClient   |-> sc["GitHubClient"],
                      HomebrewClient |-> sc["HomebrewClient"]]
        /\ runs = 1
        /\ mockPipes = <<>>
        /\ call = NoCall
        /\ out = NoCall
        /\ procs = <<>>

\* err := Pipe{}.Run(ctx), for the Homebrew pipe.
HomebrewRun ==
    /\ stage = "pipe"
    /\ \E o \in homebrew_Pipe_Run :
          /\ Artifacts' = o.Artifacts
          /\ ReleaseNotes' = o.ReleaseNotes
          /\ GitHubClient' = o.GitHubClient
          /\ HomebrewClient' = o.HomebrewClient
          /\ calls' = o.calls
          /\ dirs' = o.dirs
          /\ files' = o.files
          /\ releases' = o.releases
          /\ assets' = o.assets
          /\ tapFiles' = o.tapFiles
          /\ ran' = Append(ran, [pipe |-> homebrew_Pipe, ret |-> o.ret])
          /\ result' = o.ret
    /\ stage' = "done"
    /\ UNCHANGED <<inputs, mode, idx>>

\* The pipe is to be run once more, on a context like the first and
\* against the same tap.
HomebrewAgain ==
    /\ mode = "Pipe.Run"
    /\ stage = "done"
    /\ runs < MaxRuns
    /\ runs' = runs + 1
    /\ Artifacts' = [Artifacts EXCEPT !.HomebrewCaskPath = <<>>]
    /\ stage' = "pipe"
    /\ result' = Nil
    /\ ran' = <<>>
    /\ calls' = <<>>
    /\ UNCHANGED <<Config, Version, Git, SkipPublish, SkipNotarize, machine, mockPipes, call, out, procs, mode,
                   idx, GitHubClient, HomebrewClient, ReleaseNotes, dirs, files, remote>>

PipeNext == HomebrewRun \/ HomebrewAgain

PipeSpec == PipeInit /\ [][PipeNext]_vars

\* ------------------------------------- the notarize pipe run on its own
\* The context of TestPipeNoApp and its like: the configuration of a
\* scenario, AppPath empty as NewContext leaves it or set as Build would
\* have; Pipe{}.Run(ctx) is to be called.
NotarizeInit ==
    \E sc \in Scenarios, skipNotarize \in BOOLEAN,
       appPath \in {<<>>, <<"tmp", "/", "App", ".", "app">>} :
        /\ Config = [k \in ConfigKeys |-> sc[k]]
        /\ Version = sc["Version"]
        /\ Git = [Tag |-> sc["Git.Tag"]]
        /\ SkipPublish = FALSE
        /\ SkipNotarize = skipNotarize
        /\ GitHubClient = sc["GitHubClient"]
        /\ HomebrewClient = sc["HomebrewClient"]
        /\ Artifacts = [EmptyArtifacts EXCEPT
                            !.BuildOutputDir = IF appPath = <<>> THEN <<>> ELSE <<"tmp">>,
                            !.AppPath = appPath]
        /\ ReleaseNotes = <<>>
        /\ mode = "notarize.Pipe.Run"
        /\ stage = "pipe"
        /\ idx = 1
        /\ result = Nil
        /\ ran = <<>>
        /\ calls = <<>>
        /\ dirs = IF appPath = <<>> THEN {} ELSE {<<"tmp">>, appPath}
        /\ files = {}
        /\ releases = {}
        /\ assets = {}
        /\ tapFiles = {}
        /\ machine = [GITHUB_TOKEN   |-> sc["GITHUB_TOKEN"],
                      keychain       |-> sc["keychain"],
                      workspaces     |-> sc["workspaces"],
                      projects       |-> sc["projects"],
                      GitHubClient   |-> sc["GitHubClient"],
                      HomebrewClient |-> sc["HomebrewClient"]]
        /\ runs = 1
        /\ mockPipes = <<>>
        /\ call = NoCall
        /\ out = NoCall
        /\ procs = <<>>

\* err := Pipe{}.Run(ctx), for the Notarize pipe.
NotarizeRun ==
    /\ stage = "pipe"
    /\ \E o \in notarize_Pipe_Run :
          /\ Artifacts' = o.Artifacts
          /\ ReleaseNotes' = o.ReleaseNotes
          /\ GitHubClient' = o.GitHubClient
          /\ HomebrewClient' = o.HomebrewClient
          /\ calls' = o.calls
          /\ dirs' = o.dirs
          /\ files' = o.files
          /\ releases' = o.releases
          /\ assets' = o.assets
          /\ tapFiles' = o.tapFiles
          /\ ran' = Append(ran, [pipe |-> notarize_Pipe, ret |-> o.ret])
          /\ result' = o.ret
    /\ stage' = "done"
    /\ UNCHANGED <<inputs, mode, idx>>

NotarizeNext == NotarizeRun

NotarizeSpec == NotarizeInit /\ [][NotarizeNext]_vars

\* ---------------------------------------- any execution pipe run on its own
\* The packages a context can hold when a pipe is run on it.
DirectPackages ==
    {<<>>,
     << <<"tmp", "/", "A", ".", "zip">> >>,
     << <<"tmp", "/", "App", ".", "app">>, <<"tmp", "/", "B", ".", "dmg">> >>,
     << <<"tmp", "/", "My", " ", "App", ".", "dmg">> >>}

\* The baseline with a number in the cask token, in the tap owner or in the
\* tap name.
NumberedScenarios ==
    {[Baseline EXCEPT !["homebrew.cask.name"] = <<"app", "404">>],
     [Baseline EXCEPT !["homebrew.tap.owner"] = <<"team", "404">>],
     [Baseline EXCEPT !["homebrew.tap.name"] = <<"tap", "-", "404">>]}

\* The context of the tests that call Pipe{}.Run(ctx) on a context of their
\* own making: the configuration of a scenario, AppPath and Packages empty
\* as NewContext leaves them or set as earlier pipes would have.
DirectInit ==
    \E sc \in Scenarios \cup NumberedScenarios, appPath \in {<<>>, <<"tmp", "/", "App", ".", "app">>},
       pkgs \in DirectPackages :
        /\ Config = [k \in ConfigKeys |-> sc[k]]
        /\ Version = sc["Version"]
        /\ Git = [Tag |-> sc["Git.Tag"]]
        /\ SkipPublish = FALSE
        /\ SkipNotarize = FALSE
        /\ GitHubClient = sc["GitHubClient"]
        /\ HomebrewClient = sc["HomebrewClient"]
        /\ Artifacts = [EmptyArtifacts EXCEPT !.BuildOutputDir = <<"tmp">>,
                                              !.AppPath = appPath,
                                              !.Packages = pkgs]
        /\ ReleaseNotes = <<>>
        /\ mode = "direct"
        /\ stage = "pipe"
        /\ idx = 1
        /\ result = Nil
        /\ ran = <<>>
        /\ calls = <<>>
        /\ dirs = {<<"tmp">>, <<"tmp", "/", "App", ".", "app">>}
        /\ files = {pkgs[i] : i \in {j \in 1..Len(pkgs) : Ext(pkgs[j]) # <<".", "app">>}}
        /\ releases = IF sc["releaseExists"] THEN {sc["Version"]} ELSE {}
        /\ assets = {}
        /\ tapFiles = IF sc["caskInTap"]
                      THEN {[path |-> CaskPath(sc["homebrew.cask.name"]), sha |-> ExistingSHA]}
                      ELSE {}
        /\ machine = [GITHUB_TOKEN   |-> sc["GITHUB_TOKEN"],
                      keychain       |-> sc["keychain"],
                      workspaces     |-> sc["workspaces"],
                      projects       |-> sc["projects"],
                      GitHubClient   |-> sc["GitHubClient"],
                      HomebrewClient |-> sc["HomebrewClient"]]
        /\ runs = 1
        /\ mockPipes = <<>>
        /\ call = NoCall
        /\ out = NoCall
        /\ procs = <<>>

\* err := Pipe{}.Run(ctx) for the pipe p, outcomes being what its Run can do.
DirectRun(p, outcomes) ==
    /\ stage = "pipe"
    /\ \E o \in outcomes :
          /\ Artifacts' = o.Artifacts
          /\ ReleaseNotes' = o.ReleaseNotes
          /\ GitHubClient' = o.GitHubClient
          /\ HomebrewClient' = o.HomebrewClient
          /\ calls' = o.calls
          /\ dirs' = o.dirs
          /\ files' = o.files
          /\ releases' = o.releases
          /\ assets' = o.assets
          /\ tapFiles' = o.tapFiles
          /\ ran' = Append(ran, [pipe |-> p, ret |-> o.ret])
          /\ result' = o.ret
    /\ stage' = "done"
    /\ UNCHANGED <<inputs, mode, idx>>

SignAlone ==
    /\ mode = "direct"
    /\ DirectRun(sign_Pipe, sign_Pipe_Run)

NotarizeAlone ==
    /\ mode = "direct"
    /\ DirectRun(notarize_Pipe, notarize_Pipe_Run)

ArchiveAlone ==
    /\ mode = "direct"
    /\ DirectRun(archive_Pipe, archive_Pipe_Run)

ReleaseAlone ==
    /\ mode = "direct"
    /\ DirectRun(release_Pipe, release_Pipe_Run)

HomebrewAlone ==
    /\ mode = "direct"
    /\ DirectRun(homebrew_Pipe, homebrew_Pipe_Run)

DirectNext == SignAlone \/ NotarizeAlone \/ ArchiveAlone \/ ReleaseAlone \/ HomebrewAlone

DirectSpec == DirectInit /\ [][DirectNext]_vars

\* ------------------------------------------ invocations at the same time
MaxInvocations == 2

\* The command started MaxInvocations times at once in one directory, on one
\* configuration and version: every invocation has its own context and is
\* about to run Build; the directories are shared.
RaceInit ==
    \E sc \in Scenarios :
        /\ NewContext(sc, FALSE, FALSE)
        /\ mode = "concurrent"
        /\ stage = "execution"
        /\ idx = 1
        /\ result = Nil
        /\ ran = <<>>
        /\ calls = <<>>
        /\ dirs = IF sc["outputDirExists"]
                  THEN {OutputDir(sc["project.name"], sc["Version"])} ELSE {}
        /\ files = {}
        /\ releases = {}
        /\ assets = {}
        /\ tapFiles = {}
        /\ machine = [GITHUB_TOKEN   |-> sc["GITHUB_TOKEN"],
                      keychain       |-> sc["keychain"],
                      workspaces     |-> sc["workspaces"],
                      projects       |-> sc["projects"],
                      GitHubClient   |-> sc["GitHubClient"],
                      HomebrewClient |-> sc["HomebrewClient"]]
        /\ runs = 1
        /\ mockPipes = <<>>
        /\ call = NoCall
        /\ out = NoCall
        /\ procs = [p \in 1..MaxInvocations |->
                       [pc |-> "start", ret |-> Nil, BuildOutputDir |-> <<>>]]

\* What a step of one invocation leaves alone.
RaceFrame ==
    UNCHANGED <<inputs_but_procs, GitHubClient, HomebrewClient, Artifacts, ReleaseNotes, mode,
                stage, idx, result, ran, calls, files, remote>>

\* build.Pipe.Run of invocation p up to its output directory: the two
\* IsLocal tests, then outputDir is set. Nothing looks whether it exists.
BuildStart(p) ==
    /\ procs[p].pc = "start"
    /\ procs' = [procs EXCEPT ![p] =
          IF ~IsLocal(Config["project.name"])
          THEN [@ EXCEPT !.pc = "failed",
                         !.ret = Errorf(<<"project.name contains a path traversal or absolute path: ">>
                                        \o Config["project.name"])]
          ELSE IF ~IsLocal(Version)
          THEN [@ EXCEPT !.pc = "failed",
                         !.ret = Errorf(<<"version contains a path traversal or absolute path: ">>
                                        \o Version)]
          ELSE [@ EXCEPT !.pc = "mkdir",
                         !.BuildOutputDir = OutputDir(Config["project.name"], Version)]]
    /\ UNCHANGED dirs
    /\ RaceFrame

\* os.MkdirAll(outputDir, 0755) of invocation p: it fails, or the directory
\* is there afterwards, made now or found.
BuildMkdirAll(p) ==
    /\ procs[p].pc = "mkdir"
    /\ \/ /\ procs' = [procs EXCEPT ![p].pc = "failed",
                                     ![p].ret = Errorf(<<"failed to create output directory ">>
                                                       \o procs[p].BuildOutputDir)]
          /\ UNCHANGED dirs
       \/ /\ procs' = [procs EXCEPT ![p].pc = "building"]
          /\ dirs' = dirs \cup {procs[p].BuildOutputDir}
    /\ RaceFrame

\* The rest of build.Pipe.Run of invocation p: the archive is written
\* below outputDir, or the build fails.
BuildArchive(p) ==
    /\ procs[p].pc = "building"
    /\ \/ /\ procs' = [procs EXCEPT ![p].pc = "failed",
                                     ![p].ret = Errorf(<<"build failed: ", "xcodebuild not found">>)]
          /\ UNCHANGED dirs
       \/ /\ procs' = [procs EXCEPT ![p].pc = "built"]
          /\ dirs' = dirs \cup {Join(procs[p].BuildOutputDir,
                                     Config["project.scheme"] \o <<".", "xcarchive">>)}
    /\ RaceFrame

RaceNext ==
    \E p \in 1..MaxInvocations : BuildStart(p) \/ BuildMkdirAll(p) \/ BuildArchive(p)

RaceSpec == RaceInit /\ [][RaceNext]_vars

\* -------------------------------------------- functions called on their own
\* The cask data of the tests, every field safe.
BaseCask == [Token    |-> <<"myapp">>,
             Version  |-> <<"1.0.0">>,
             SHA256   |-> <<"abc123">>,
             URL      |-> <<"https://example.com/myapp.zip">>,
             Name     |-> <<"MyApp">>,
             Desc     |-> <<"An app">>,
             Homepage |-> <<"https://example.com">>,
             AppName  |-> <<"MyApp", ".", "app">>,
             License  |-> <<>>]

\* The values a field of the cask data is tried with: each of the characters
\* the sanitizer looks for, inside a value, and values that only look alike.
CaskValues == {<<"My", "\"", "App">>, <<"a", "\\">>, <<"a", "\n", "b">>, <<"\r">>,
               <<"#", "{", "x", "}">>, <<"#">>, <<"{", "#">>, <<"MIT">>}

\* The cask data tried: the base with one or two fields changed.
CaskInputs ==
    {BaseCask}
    \cup UNION {{[BaseCask EXCEPT ![f] = v] : v \in CaskValues} : f \in DOMAIN BaseCask}
    \cup UNION {{[BaseCask EXCEPT ![f] = v, ![g] = w] : v \in CaskValues, w \in CaskValues} :
                    f \in {"Desc", "SHA256"}, g \in {"Token", "License"}}

\* The pieces the strings given to the env functions are made of: an opened
\* reference, a closing parenthesis, plain text, and whole references to the
\* variables X, E, Y and Z.
EnvChunks == {<<"e", "n", "v", "(">>, <<")">>, <<"-">>,
              <<"e", "n", "v", "(", "X", ")">>,
              <<"e", "n", "v", "(", "E", ")">>,
              <<"e", "n", "v", "(", "Y", ")">>,
              <<"e", "n", "v", "(", "Z", ")">>,
              <<"e", "n", "v", "(", "W", ")">>}

MaxChunks == 3

RECURSIVE Flatten(_)
Flatten(chunks) == IF chunks = <<>> THEN <<>> ELSE Head(chunks) \o Flatten(Tail(chunks))

\* The strings tried: "", "env()", "env(-", "-env(X)-", "env(Y)env(X)", ...
EnvStrings == {Flatten(chunks) : chunks \in SeqsUpTo(EnvChunks, MaxChunks)}

FieldPaths == {"notarize.password", "homebrew.tap.token"}

\* The scalars of the trees tried: a reference to a set variable, to an
\* unset one, and to one holding a control character.
Scalars == {StringNode(<<"e", "n", "v", "(", "X", ")">>),
            StringNode(<<"e", "n", "v", "(", "Y", ")">>),
            StringNode(<<"e", "n", "v", "(", "Z", ")">>)}

\* The keys of the trees tried: a plain one, and one whose text refers to a
\* set variable.
KeyNodes == {StringNode(<<"key">>), StringNode(<<"e", "n", "v", "(", "X", ")">>)}

MaxDepth == 2

\* The trees tried, up to a nesting depth: scalars, mappings of one or two
\* entries and sequences of one or two items, the second one a scalar.
RECURSIVE Trees(_)
Trees(d) ==
    IF d = 0 THEN Scalars
    ELSE LET below == Trees(d - 1)
         IN  Scalars
             \cup {MappingNode(<<MappingValueNode(k, t)>>) : k \in KeyNodes, t \in below}
             \cup {MappingNode(<<MappingValueNode(k[1], t), MappingValueNode(k[2], l)>>) :
                       k \in KeyNodes \X KeyNodes, t \in below, l \in Scalars}
             \cup {SequenceNode(<<t>>) : t \in below}
             \cup {SequenceNode(<<t, l>>) : t \in below, l \in Scalars}

\* The config paths tried: below the working directory, climbing out of
\* it, and absolute.
ConfigPaths ==
    {<<>>,
     <<"cfg">>,
     <<".", "/", "cfg">>,
     <<"sub", "/", ".", ".", "/", "cfg">>,
     <<".", ".", "/", ".", ".", "/", "etc", "/", "passwd">>,
     <<".", ".", "/", ".", ".", "/", "tmp", "/", "cfg">>,
     <<"/", "tmp", "/", "cfg">>,
     <<"/", "etc", "/", "passwd">>,
     <<"/", "home", "/", "proj", "/", "cfg">>,
     <<"/", "home", "/", "proj", "/", ".", ".", "/", ".", ".", "/", "etc", "/", "passwd">>}

\* What can be at a location of the disk: a config file, a file that is
\* not one, a file over 1MB, a directory.
Disks ==
    LET locations == {<<"/", "home", "/", "proj", "/", "cfg">>,
                      <<"/", "tmp", "/", "cfg">>,
                      <<"/", "etc", "/", "passwd">>}
    IN  UNION {[D -> {"config", "other", "large", "dir"}] : D \in SUBSET locations}

\* The calls tried.
Calls ==
    {[fn |-> "SelectPackage", in |-> pkgs] : pkgs \in SeqsUpTo(PackagePaths, MaxPackages)}
    \cup {[fn |-> "RenderCask", in |-> data] : data \in CaskInputs}
    \cup {[fn |-> "CheckResolved", in |-> [value |-> v, field |-> f]] :
              v \in EnvStrings, f \in FieldPaths}
    \cup {[fn |-> "replaceEnvVarsInString", in |-> v] : v \in EnvStrings}
    \cup {[fn |-> "SubstituteEnvVarsNode", in |-> t] : t \in Trees(MaxDepth)}
    \cup {[fn |-> "LoadConfig", in |-> [path |-> path, disk |-> disk]] :
              path \in ConfigPaths, disk \in Disks}

\* A function is about to be called with its argument; no pipeline runs.
CallInit ==
    /\ NewContext(Baseline, FALSE, FALSE)
    /\ mode = "call"
    /\ stage = "call"
    /\ idx = 1
    /\ result = Nil
    /\ ran = <<>>
    /\ calls = <<>>
    /\ dirs = {}
    /\ files = {}
    /\ releases = {}
    /\ assets = {}
    /\ tapFiles = {}
    /\ machine = [GITHUB_TOKEN   |-> Baseline["GITHUB_TOKEN"],
                  keychain       |-> Baseline["keychain"],
                  workspaces     |-> Baseline["workspaces"],
                  projects       |-> Baseline["projects"],
                  GitHubClient   |-> Baseline["GitHubClient"],
                  HomebrewClient |-> Baseline["HomebrewClient"]]
    /\ runs = 1
    /\ mockPipes = <<>>
    /\ call \in Calls
    /\ out = NoCall
    /\ procs = <<>>

\* What a call leaves alone: everything but its result.
CallFrame ==
    /\ stage' = "returned"
    /\ UNCHANGED <<Config, Version, Git, SkipPublish, SkipNotarize, machine, runs, mockPipes,
                   call, procs, remote, GitHubClient, HomebrewClient, Artifacts, ReleaseNotes, mode,
                   idx, result, ran, calls, dirs, files>>

\* path, err := SelectPackage(packages)
SelectPackageCall ==
    /\ stage = "call"
    /\ call.fn = "SelectPackage"
    /\ out' = SelectPackage(call.in)
    /\ CallFrame

\* content, err := RenderCask(data)
RenderCaskCall ==
    /\ stage = "call"
    /\ call.fn = "RenderCask"
    /\ out' \in RenderCask(call.in)
    /\ CallFrame

\* err := CheckResolved(value, field)
CheckResolvedCall ==
    /\ stage = "call"
    /\ call.fn = "CheckResolved"
    /\ out' = CheckResolved(call.in.value, call.in.field)
    /\ CallFrame

\* replaced, err := replaceEnvVarsInString(input)
replaceEnvVarsInStringCall ==
    /\ stage = "call"
    /\ call.fn = "replaceEnvVarsInString"
    /\ out' = replaceEnvVarsInString(call.in)
    /\ CallFrame

\* err := SubstituteEnvVarsNode(node); out holds the tree as the walk left it.
SubstituteEnvVarsNodeCall ==
    /\ stage = "call"
    /\ call.fn = "SubstituteEnvVarsNode"
    /\ out' = SubstituteEnvVarsNode(call.in)
    /\ CallFrame

\* config, err := LoadConfig(path)
LoadConfigCall ==
    /\ stage = "call"
    /\ call.fn = "LoadConfig"
    /\ out' = LoadConfig(call.in.path, call.in.disk)
    /\ CallFrame

CallNext ==
    \/ SelectPackageCall
    \/ RenderCaskCall
    \/ CheckResolvedCall
    \/ replaceEnvVarsInStringCall
    \/ SubstituteEnvVarsNodeCall
    \/ LoadConfigCall

CallSpec == CallInit /\ [][CallNext]_vars

\* ------------------------------------------------------------- properties
\* C1: RunAll runs the validation pipes first; when one of them returns an
\* error that is not a skip, RunAll returns that error (under the pipe's
\* name) and no execution pipe has run, no tool has been called and no
\* artifact has been written.  An execution pipe runs only after every
\* validation pipe has returned nil or a skip.
C1_ValidationBeforeExecution ==
    mode = "RunAll" =>
        \A i \in 1..Len(ran) :
            /\ ran[i].pipe \in Range(ExecutionPipes) =>
                  /\ i > Len(ValidationPipes)
                  /\ \A j \in 1..Len(ValidationPipes) :
                        /\ ran[j].pipe = ValidationPipes[j]
                        /\ ran[j].ret.kind \in {"nil", "skip"}
            /\ (ran[i].pipe \in Range(ValidationPipes) /\ ran[i].ret.kind = "err") =>
                  /\ i = Len(ran)
                  /\ stage = "done"
                  /\ result = Errorf(<<ran[i].pipe, ": ">> \o ran[i].ret.msg)
                  /\ calls = <<>>
                  /\ files = {}
                  /\ Artifacts = EmptyArtifacts

\* RunAll has returned the error of a validation pipe.
C1_Witness ==
    /\ mode = "RunAll"
    /\ stage = "done"
    /\ result.kind = "err"
    /\ Len(ran) > 2
    /\ ran[Len(ran)].pipe \in Range(ValidationPipes)
    /\ ran[Len(ran)].ret.kind = "err"

\* C2: a pipe returning a skip does not stop runPipes: the loop goes on to
\* the next pipe, and a list whose pipes each return nil or a skip runs every
\* pipe, in order, and returns nil.
C2_SkipDoesNotAbort ==
    mode = "runPipes" =>
        /\ Len(ran) <= Len(mockPipes)
        /\ \A i \in 1..Len(ran) :
              /\ ran[i] = [pipe |-> mockPipes[i].name, ret |-> mockPipes[i].err]
              /\ (ran[i].ret.kind = "skip" /\ i < Len(mockPipes) /\ stage = "done") => Len(ran) > i
        /\ (stage = "done" /\ \A i \in 1..Len(mockPipes) : mockPipes[i].err.kind \in {"nil", "skip"}) =>
              /\ Len(ran) = Len(mockPipes)
              /\ result = Nil

\* A list whose first pipe skips has run to its end and returned nil.
C2_Witness ==
    /\ mode = "runPipes"
    /\ stage = "done"
    /\ result = Nil
    /\ Len(mockPipes) > 1
    /\ Len(ran) = Len(mockPipes)
    /\ ran[1].ret.kind = "skip"

\* C3: an error that is not a skip stops runPipes at once: the pipe that
\* returned it is the last to have run, and what is returned is
\* "<pipe name>: <error>".
C3_ErrorStopsAndIsPrefixed ==
    \A i \in 1..Len(ran) :
        ran[i].ret.kind = "err" =>
            /\ i = Len(ran)
            /\ stage = "done"
            /\ result = Errorf(<<ran[i].pipe, ": ">> \o ran[i].ret.msg)

\* An execution pipe after the first has failed.
C3_Witness ==
    /\ mode = "RunExecution"
    /\ stage = "done"
    /\ Len(ran) > 1
    /\ ran[Len(ran)].ret.kind = "err"
    /\ result.kind = "err"

\* C4: the validation pipes never write Artifacts: during validation and
\* after RunValidation every field of Artifacts has its zero value.
C4_ValidationLeavesArtifactsEmpty ==
    (mode = "RunValidation" \/ stage = "validation") => Artifacts = EmptyArtifacts

\* RunValidation has run every validation pipe and returned nil.
C4_Witness ==
    /\ mode = "RunValidation"
    /\ stage = "done"
    /\ result = Nil
    /\ Len(ran) = Len(ValidationPipes)

C6_BuildFailsOnExistingOutputDir ==
    [][(/\ Running(build_Pipe)
        /\ IsLocal(Config["project.name"])
        /\ IsLocal(Version)
        /\ OutputDir(Config["project.name"], Version) \in dirs)
       => /\ ran'[Len(ran')].pipe = build_Pipe
          /\ ran'[Len(ran')].ret.kind = "err"
          /\ \E j \in 1..Len(ran'[Len(ran')].ret.msg) :
                ran'[Len(ran')].ret.msg[j] = "already exists"
          /\ calls' = calls]_vars

\* C7: with SkipPublish the release and homebrew pipes, validation and
\* execution alike, return a skip; ReleaseURL and HomebrewCaskPath stay empty;
\* no release is created, no asset uploaded and no file written to the tap;
\* and RunAll, no other pipe failing, runs every pipe and returns nil.
C7_SkipPublishPublishesNothing ==
    SkipPublish =>
        /\ \A i \in 1..Len(ran) :
              ran[i].pipe \in {release_CheckPipe, homebrew_CheckPipe, release_Pipe, homebrew_Pipe}
                 => ran[i].ret.kind = "skip"
        /\ Artifacts.ReleaseURL = <<>>
        /\ Artifacts.HomebrewCaskPath = <<>>
        /\ \A i \in 1..Len(calls) :
              calls[i].tool \notin {"CreateRelease", "UploadReleaseAsset", "CreateFile", "UpdateFile"}
        /\ assets = {}
        /\ (mode = "RunAll" /\ stage = "done" /\ \A i \in 1..Len(ran) : ran[i].ret.kind # "err") =>
              /\ result = Nil
              /\ Len(ran) = Len(ValidationPipes) + Len(ExecutionPipes)

\* RunAll with SkipPublish has gone through to the homebrew pipe and returned nil.
C7_Witness ==
    /\ SkipPublish
    /\ mode = "RunAll"
    /\ stage = "done"
    /\ result = Nil
    /\ Artifacts.Packages # <<>>
    /\ ran[Len(ran)].pipe = homebrew_Pipe

\* C8: with SkipNotarize the notarize check returns a skip whatever the
\* notarize fields hold, and with SkipPublish the release and homebrew checks
\* return a skip whatever their fields hold.
C8_ChecksGatedOnSkipFlags ==
    \A i \in 1..Len(ran) :
        /\ (SkipNotarize /\ ran[i].pipe = notarize_CheckPipe) => ran[i].ret.kind = "skip"
        /\ (SkipPublish /\ ran[i].pipe \in {release_CheckPipe, homebrew_CheckPipe}) =>
              ran[i].ret.kind = "skip"

\* Validation has passed under both flags with an unresolved Apple ID.
C8_Witness ==
    /\ SkipNotarize
    /\ SkipPublish
    /\ Config["notarize.apple_id"] = Unresolved
    /\ mode = "RunValidation"
    /\ stage = "done"
    /\ result = Nil

\* C9: codesign is given "--options runtime" exactly when SkipNotarize is
\* false and notarize.apple_id is not empty; with SkipNotarize its arguments
\* hold neither "--options" nor "runtime".
C9_HardenedRuntimeIffNotarizing ==
    \A i \in 1..Len(calls) :
        (calls[i].tool = "codesign" /\ <<"--sign">> \in Range(calls[i].args)) =>
            LET args == calls[i].args
                hardened == \E j \in 1..(Len(args) - 1) :
                                args[j] = <<"--options">> /\ args[j+1] = <<"runtime">>
            IN  /\ hardened <=> (~SkipNotarize /\ Config["notarize.apple_id"] # <<>>)
                /\ SkipNotarize => (/\ <<"--options">> \notin Range(args)
                                    /\ <<"runtime">> \notin Range(args))

\* The app has been signed with the hardened runtime.
C9_Witness ==
    \E i \in 1..Len(calls) :
        /\ calls[i].tool = "codesign"
        /\ <<"--sign">> \in Range(calls[i].args)
        /\ <<"--options">> \in Range(calls[i].args)
        /\ <<"runtime">> \in Range(calls[i].args)

\* C10: within a run each field of Artifacts is written by one pipe only:
\* BuildOutputDir, ArchivePath and AppPath by Build, Packages by Archive,
\* which only appends to it, ChangelogPath by Changelog, ReleaseURL by
\* Release and HomebrewCaskPath by Homebrew.
C10_OneWriterPerField ==
    [][runs' = runs =>
        LET p == IF stage \in {"validation", "execution"} /\ idx <= Len(CurrentPipes)
                 THEN CurrentPipes[idx] ELSE "none"
        IN  /\ Artifacts'.BuildOutputDir # Artifacts.BuildOutputDir => p = build_Pipe
            /\ Artifacts'.ArchivePath # Artifacts.ArchivePath => p = build_Pipe
            /\ Artifacts'.AppPath # Artifacts.AppPath => p = build_Pipe
            /\ Artifacts'.Packages # Artifacts.Packages =>
                  /\ p = archive_Pipe
                  /\ Len(Artifacts'.Packages) > Len(Artifacts.Packages)
                  /\ SubSeq(Artifacts'.Packages, 1, Len(Artifacts.Packages)) = Artifacts.Packages
            /\ Artifacts'.ChangelogPath # Artifacts.ChangelogPath => p = changelog_Pipe
            /\ Artifacts'.ReleaseURL # Artifacts.ReleaseURL => p = release_Pipe
            /\ Artifacts'.HomebrewCaskPath # Artifacts.HomebrewCaskPath => p = homebrew_Pipe]_vars

\* Every field of Artifacts has been written.
C10_Witness ==
    /\ Artifacts.BuildOutputDir # <<>>
    /\ Artifacts.ArchivePath # <<>>
    /\ Artifacts.AppPath # <<>>
    /\ Len(Artifacts.Packages) > 1
    /\ Artifacts.ReleaseURL # <<>>
    /\ Artifacts.HomebrewCaskPath # <<>>

\* C11: when CreateRelease fails with an error whose message contains
\* "already_exists", the Release pipe returns an error that says "already
\* exists" and names the version tag, no call follows (no asset is uploaded)
\* and Artifacts.ReleaseURL is empty.
C11_ReleaseAlreadyExists ==
    \A i \in 1..Len(calls) :
        (/\ calls[i].tool = "CreateRelease"
         /\ calls[i].err.kind = "err"
         /\ Contains(calls[i].err.msg, <<"already_exists">>)) =>
            /\ i = Len(calls)
            /\ stage = "done"
            /\ ran[Len(ran)].pipe = release_Pipe
            /\ ran[Len(ran)].ret.kind = "err"
            /\ Contains(ran[Len(ran)].ret.msg, <<"already exists">>)
            /\ Contains(ran[Len(ran)].ret.msg, Version)
            /\ \A j \in 1..Len(calls) : calls[j].tool # "UploadReleaseAsset"
            /\ Artifacts.ReleaseURL = <<>>

\* CreateRelease has been refused for a tag that has a release.
C11_Witness ==
    /\ Version # <<>>
    /\ Len(calls) > 0
    /\ calls[Len(calls)].tool = "CreateRelease"
    /\ Contains(calls[Len(calls)].err.msg, <<"already_exists">>)
    /\ ran[Len(ran)].pipe = release_Pipe

C14_ReadErrorIsFatal ==
    \A i \in 1..Len(calls) :
        (/\ calls[i].tool = "GetFileContents"
         /\ calls[i].err.kind = "err"
         /\ ~Contains(calls[i].err.msg, <<"404">>)) =>
            /\ i = Len(calls)
            /\ stage = "done"
            /\ ran[Len(ran)].pipe = homebrew_Pipe
            /\ ran[Len(ran)].ret.kind = "err"
            /\ result.kind = "err"
            /\ \A j \in 1..Len(calls) : calls[j].tool \notin {"CreateFile", "UpdateFile"}

\* The read of the cask has failed with an error other than a 404.
C14_Witness ==
    /\ Len(calls) > 0
    /\ calls[Len(calls)].tool = "GetFileContents"
    /\ Contains(calls[Len(calls)].err.msg, <<"401">>)
    /\ ran[Len(ran)].pipe = homebrew_Pipe
    /\ result.kind = "err"

\* C13: with a tap configured, a Homebrew pipe that succeeds has written
\* the cask once: against a tap without Casks/<token>.rb by one CreateFile
\* with the message "Add <token> <version>" and no UpdateFile, against a tap
\* that has it by one UpdateFile with the message "Update <token> to
\* <version>", carrying the blob SHA its own read returned, and no
\* CreateFile; and GitHub never has to refuse a write of the pipe, so a
\* second run after a first succeeds like the first.
C13_CreateThenUpdate ==
    [][(stage = "pipe" /\ stage' = "done" /\ ~SkipPublish /\ isTapConfigured) =>
        LET token   == Config["homebrew.cask.name"]
            version == TrimPrefix(Version, <<"v">>)
            path    == CaskPath(token)
            present == \E f \in tapFiles : f.path = path
            Made(tool) == {i \in 1..Len(calls') : calls'[i].tool = tool}
        IN  /\ \A i \in 1..Len(calls') :
                  /\ ~Contains(calls'[i].err.msg, <<"409">>)
                  /\ ~Contains(calls'[i].err.msg, <<"422">>)
            /\ result' = Nil =>
                  IF ~present
                  THEN /\ Cardinality(Made("CreateFile")) = 1
                       /\ Made("UpdateFile") = {}
                       /\ \A i \in Made("CreateFile") :
                             calls'[i].args = <<Config["homebrew.tap.owner"],
                                                Config["homebrew.tap.name"], path,
                                                <<"Add ">> \o token \o <<" ">> \o version>>
                       /\ \E f \in tapFiles' : f.path = path
                  ELSE /\ Cardinality(Made("UpdateFile")) = 1
                       /\ Made("CreateFile") = {}
                       /\ \A i \in Made("UpdateFile") :
                             /\ calls'[i].args = <<Config["homebrew.tap.owner"],
                                                   Config["homebrew.tap.name"], path,
                                                   <<"Update ">> \o token \o <<" to ">> \o version>>
                             /\ \E j \in 1..(i - 1) :
                                   /\ calls'[j].tool = "GetFileContents"
                                   /\ calls'[j].err = Nil
                                   /\ calls'[j].sha = calls'[i].sha
                             /\ [path |-> path, sha |-> calls'[i].sha] \in tapFiles]_vars

\* The second run has updated, under the SHA it read, the cask the first
\* run created.
C13_Witness ==
    /\ mode = "Pipe.Run"
    /\ runs = 2
    /\ stage = "done"
    /\ result = Nil
    /\ \E i \in 1..Len(calls) :
          /\ calls[i].tool = "UpdateFile"
          /\ calls[i].err = Nil
          /\ calls[i].sha = 1
    /\ \A i \in 1..Len(calls) : calls[i].tool # "CreateFile"
    /\ tapFiles = {[path |-> CaskPath(Config["homebrew.cask.name"]), sha |-> 2]}

\* C15: SelectPackage returns the first entry whose extension is .zip when
\* there is one, wherever the .dmg entries are; otherwise the first entry
\* whose extension is .dmg; otherwise an error containing "no .zip or .dmg".
C15_ZipThenDmg ==
    (call.fn = "SelectPackage" /\ stage = "returned") =>
        LET packages == call.in
            zips == {i \in 1..Len(packages) : Ext(packages[i]) = <<".", "zip">>}
            dmgs == {i \in 1..Len(packages) : Ext(packages[i]) = <<".", "dmg">>}
            First(S) == CHOOSE i \in S : \A j \in S : i <= j
        IN  IF zips # {}
            THEN out.err = Nil /\ out.path = packages[First(zips)]
            ELSE IF dmgs # {}
            THEN out.err = Nil /\ out.path = packages[First(dmgs)]
            ELSE /\ out.err.kind = "err"
                 /\ Contains(out.err.msg, <<"no .zip or .dmg">>)
                 /\ out.path = <<>>

\* A .zip has been selected from a list that holds a .dmg and another .zip
\* before and after it.
C15_Witness ==
    /\ call.fn = "SelectPackage"
    /\ stage = "returned"
    /\ call.in = << <<"tmp", "/", "A", ".", "dmg">>, <<"tmp", "/", "B", ".", "zip">>,
                    <<"tmp", "/", "A", ".", "zip">> >>
    /\ out.path = <<"tmp", "/", "B", ".", "zip">>

\* C16 as stated: RenderCask returns an error and renders nothing whenever
\* any of token, version, sha256, url, name, desc, homepage, license and
\* app_name holds a double quote, a backslash, LF, CR or "#{".
C16_EveryFieldSanitized ==
    (call.fn = "RenderCask" /\ stage = "returned") =>
        LET data == call.in
            Unsafe(v) == \/ \E i \in 1..Len(v) : v[i] \in {"\"", "\\", "\n", "\r"}
                         \/ \E i \in 1..(Len(v) - 1) : v[i] = "#" /\ v[i+1] = "{"
        IN  (\E f \in {"Token", "Version", "SHA256", "URL", "Name", "Desc", "Homepage",
                       "License", "AppName"} : Unsafe(data[f]))
                => out.err.kind = "err" /\ out.content = <<>>

\* C16: RenderCask returns an error that names an offending field and
\* renders nothing whenever any of token, version, url, name, desc, homepage,
\* license and app_name holds a double quote, a backslash, LF, CR or "#{";
\* so a rendered cask holds none of these in any of these eight values.
\* sha256 is not looked at.
C16_EightFieldsSanitized ==
    (call.fn = "RenderCask" /\ stage = "returned") =>
        LET data == call.in
            Unsafe(v) == \/ \E i \in 1..Len(v) : v[i] \in {"\"", "\\", "\n", "\r"}
                         \/ \E i \in 1..(Len(v) - 1) : v[i] = "#" /\ v[i+1] = "{"
            named == [token |-> data.Token, version |-> data.Version, url |-> data.URL,
                      name |-> data.Name, desc |-> data.Desc, homepage |-> data.Homepage,
                      license |-> data.License, app_name |-> data.AppName]
            unsafe == {n \in DOMAIN named : Unsafe(named[n])}
        IN  IF unsafe # {}
            THEN /\ out.err.kind = "err"
                 /\ out.content = <<>>
                 /\ out.err.msg[1] = "invalid "
                 /\ out.err.msg[2] \in unsafe
            ELSE /\ out.err = Nil
                 /\ out.content # <<>>
                 /\ Contains(out.content, <<"  sha256 ", "\"">> \o data.SHA256 \o <<"\"">>)

\* RenderCask has refused a description holding "#{" and named the field.
C16_Witness ==
    /\ call.fn = "RenderCask"
    /\ stage = "returned"
    /\ call.in.Desc = <<"#", "{", "x", "}">>
    /\ out.err.kind = "err"
    /\ out.content = <<>>
    /\ out.err.msg[2] = "desc"

\* C17: CheckResolved(v, f) returns an error exactly when v holds "env(",
\* then at least one character other than ")", then ")"; the error is
\* "f: environment variable NAME is not set" for the leftmost such match;
\* "", "env()" and an unterminated "env(NAME" give no error.
C17_ErrorIffReference ==
    (call.fn = "CheckResolved" /\ stage = "returned") =>
        LET v == call.in.value
            f == call.in.field
            \* v[i..j] is "env(" NAME ")" with a non-empty NAME free of ")"
            Match(i, j) == /\ i + 5 <= j
                           /\ v[i] = "e" /\ v[i+1] = "n" /\ v[i+2] = "v" /\ v[i+3] = "("
                           /\ v[j] = ")"
                           /\ \A m \in (i + 4)..(j - 1) : v[m] # ")"
            matches == {ij \in (1..Len(v)) \X (1..Len(v)) : Match(ij[1], ij[2])}
        IN  /\ (out.kind = "err") <=> (matches # {})
            /\ (matches = {}) => out = Nil
            /\ \A ij \in matches :
                   (\A kl \in matches : ij[1] <= kl[1])
                       => out.msg = <<f, ": environment variable ">>
                                        \o SubSeq(v, ij[1] + 4, ij[2] - 1)
                                        \o <<" is not set">>
            /\ v \in {<<>>, <<"e", "n", "v", "(", ")">>, <<"e", "n", "v", "(", "-">>}
                   => out = Nil

\* CheckResolved has reported the first of two references, after a prefix.
C17_Witness ==
    /\ call.fn = "CheckResolved"
    /\ stage = "returned"
    /\ call.in.value = <<"-", "e", "n", "v", "(", "Y", ")", "e", "n", "v", "(", "X", ")">>
    /\ out = Errorf(<<"homebrew.tap.token", ": environment variable ", "Y", " is not set">>)

C19_KeysUntouched ==
    (call.fn = "SubstituteEnvVarsNode" /\ stage = "returned") =>
        LET RECURSIVE Keys(_)
            RECURSIVE Leaves(_)
            RECURSIVE Over(_, _, _)
            \* f over the items of a sequence of nodes, concatenated
            Over(values, i, which) ==
                IF i > Len(values) THEN <<>>
                ELSE (IF which = "keys" THEN Keys(values[i]) ELSE Leaves(values[i]))
                         \o Over(values, i + 1, which)
            Keys(n) == CASE n.type = "String" -> <<>>
                         [] n.type = "MappingValue" -> <<n.Key>> \o Keys(n.Value)
                         [] OTHER -> Over(n.Values, 1, "keys")
            Leaves(n) == CASE n.type = "String" -> <<n.Value>>
                           [] n.type = "MappingValue" -> Leaves(n.Value)
                           [] OTHER -> Over(n.Values, 1, "leaves")
            before == Leaves(call.in)
            after  == Leaves(out.node)
        IN  /\ Keys(out.node) = Keys(call.in)
            /\ Len(after) = Len(before)
            /\ out.err = Nil =>
                   \A i \in 1..Len(before) : after[i] = replaceEnvVarsInString(before[i]).value
            /\ out.err = Nil <=>
                   \A i \in 1..Len(before) : replaceEnvVarsInString(before[i]).err = Nil

\* A mapping nested in a mapping, both keys reading env(X) with X set, has
\* been walked: the value env(X) is replaced, the two keys are not.
C19_Witness ==
    /\ call.fn = "SubstituteEnvVarsNode"
    /\ stage = "returned"
    /\ call.in = MappingNode(<<MappingValueNode(StringNode(<<"e", "n", "v", "(", "X", ")">>),
                     MappingNode(<<MappingValueNode(StringNode(<<"e", "n", "v", "(", "X", ")">>),
                                                   StringNode(<<"e", "n", "v", "(", "X", ")">>))>>))>>)
    /\ out.err = Nil
    /\ out.node = MappingNode(<<MappingValueNode(StringNode(<<"e", "n", "v", "(", "X", ")">>),
                     MappingNode(<<MappingValueNode(StringNode(<<"e", "n", "v", "(", "X", ")">>),
                                                   StringNode(<<"test-value">>))>>))>>)

\* C20 as stated: when not skipped, the Notarize pipe returns an error,
\* having called no tool and written no file, whenever AppleID, TeamID,
\* Password or Artifacts.AppPath is empty.
C20_FourRequired ==
    [][(/\ mode = "notarize.Pipe.Run"
        /\ stage = "pipe" /\ stage' = "done"
        /\ ~SkipNotarize
        /\ \/ Config["notarize.apple_id"] = <<>>
           \/ Config["notarize.team_id"] = <<>>
           \/ Config["notarize.password"] = <<>>
           \/ Artifacts.AppPath = <<>>)
       => /\ result'.kind = "err"
          /\ calls' = calls
          /\ files' = files]_vars

\* C20: when not skipped, the Notarize pipe requires Artifacts.AppPath only:
\* when it is empty the pipe returns "no .app found to notarize", having
\* called no tool and written no file; when it is set the pipe goes on to
\* the temp ZIP and the submission whatever AppleID, TeamID and Password
\* hold, handing them to notarytool as they are, so that it returns nil or
\* the error of one of its tools. When skipped it returns a skip and calls
\* nothing.
C20_OnlyAppPathRequired ==
    [][(/\ mode = "notarize.Pipe.Run"
        /\ stage = "pipe" /\ stage' = "done")
       => IF SkipNotarize
          THEN result'.kind = "skip" /\ calls' = calls /\ files' = files
          ELSE IF Artifacts.AppPath = <<>>
          THEN /\ result'.kind = "err"
               /\ Contains(result'.msg, <<"no .app found to notarize">>)
               /\ calls' = calls
               /\ files' = files
          ELSE /\ \/ result' = Nil
                  \/ /\ result'.kind = "err"
                     /\ result'.msg[1] \in {"failed to create temp ZIP for notarization",
                                            "notarization failed", "stapling failed",
                                            "Gatekeeper assessment failed"}
               /\ \A i \in 1..Len(calls') :
                      calls'[i].tool = "notarytool submit" =>
                          /\ i > 1 /\ calls'[i-1].tool = "ditto"
                          /\ calls'[i].args[2] = Config["notarize.apple_id"]
                          /\ calls'[i].args[3] = Config["notarize.team_id"]
                          /\ calls'[i].args[4] = Config["notarize.password"]]_vars

\* The pipe, run with an app and an empty Apple ID, has zipped the app and
\* submitted it.
C20_Witness ==
    /\ mode = "notarize.Pipe.Run"
    /\ stage = "done"
    /\ ~SkipNotarize
    /\ Config["notarize.apple_id"] = <<>>
    /\ Artifacts.AppPath # <<>>
    /\ \E i \in 1..Len(calls) :
          /\ calls[i].tool = "notarytool submit"
          /\ calls[i].args[2] = <<>>

\* C21: the Release pipe, once it has created the release, visits
\* Artifacts.Packages in order: an entry that is not a regular file is never
\* uploaded, and the uploads made are, one for one and in order, the entries
\* that are regular files - all of them when the pipe returns nil.
C21_UploadsRegularFilesInOrder ==
    [][(Running(release_Pipe) /\ ~SkipPublish) =>
        LET new      == SubSeq(calls', Len(calls) + 1, Len(calls'))
            IsUpload(c) == c.tool = "UploadReleaseAsset"
            IsFile(p)   == p \in files
            ups      == SelectSeq(new, IsUpload)
            regular  == SelectSeq(Artifacts.Packages, IsFile)
        IN  /\ Len(ups) <= Len(regular)
            /\ \A i \in 1..Len(ups) :
                  /\ ups[i].args[1] = regular[i]
                  /\ ups[i].args[1] \in files
                  /\ i < Len(ups) => ups[i].err = Nil
            /\ ups # <<>> => (new[1].tool = "CreateRelease" /\ new[1].err = Nil)
            /\ ran'[Len(ran')].ret = Nil =>
                  /\ Len(ups) = Len(regular)
                  /\ \A i \in 1..Len(ups) : ups[i].err = Nil]_vars

\* A release has gone through whose packages are the .app directory and a
\* ZIP: the ZIP is uploaded, the directory is not.
C21_Witness ==
    /\ \E i \in 1..Len(ran) : ran[i].pipe = release_Pipe /\ ran[i].ret = Nil
    /\ Len(Artifacts.Packages) = 2
    /\ Artifacts.Packages[1] = Artifacts.AppPath
    /\ Artifacts.Packages[1] \notin files
    /\ Cardinality({i \in 1..Len(calls) : calls[i].tool = "UploadReleaseAsset"}) = 1
    /\ \E i \in 1..Len(calls) :
          /\ calls[i].tool = "UploadReleaseAsset"
          /\ calls[i].args[1] = Artifacts.Packages[2]

\* C22: an upload that fails is the last thing the run does: no call
\* follows it, the Release pipe returns an error naming the file, and the
\* run ends with that error.
C22_UploadFailureIsFatal ==
    \A i \in 1..Len(calls) :
        (calls[i].tool = "UploadReleaseAsset" /\ calls[i].err # Nil) =>
            /\ i = Len(calls)
            /\ ran[Len(ran)].pipe = release_Pipe
            /\ ran[Len(ran)].ret.kind = "err"
            /\ Contains(ran[Len(ran)].ret.msg,
                        <<"failed to upload asset ">> \o Base(calls[i].args[1]))
            /\ stage = "done"
            /\ result.kind = "err"
            /\ Contains(result.msg, <<"failed to upload asset ">> \o Base(calls[i].args[1]))

\* The second of two uploads has failed, the first having gone through.
C22_Witness ==
    /\ Len(calls) >= 3
    /\ calls[Len(calls)].tool = "UploadReleaseAsset"
    /\ calls[Len(calls)].err # Nil
    /\ calls[Len(calls) - 1].tool = "UploadReleaseAsset"
    /\ calls[Len(calls) - 1].err = Nil
    /\ result.kind = "err"

C24_TraversalRejected ==
    (call.fn = "LoadConfig" /\ stage = "returned" /\ call.in.path # <<>>) =>
        LET path     == call.in.path
            resolved == Abs(path)
            inside   == resolved = Getwd \/ HasPrefix(resolved, Getwd \o <<"/">>)
        IN  /\ (path[1] # "/" /\ ~inside) => out.err.kind = "err"
            /\ out.err = Nil => (inside \/ path[1] = "/")

\* C25: within a run a client that is in its field, injected or made
\* earlier, is never replaced; GitHubClient is filled only by the Release
\* pipe and HomebrewClient only by the Homebrew pipe committing to a
\* configured tap, each with a real client and only when the field is nil;
\* with SkipPublish both fields stay as they were, and with no tap field set
\* HomebrewClient stays nil through the Homebrew pipe.
C25_ClientsNeverReplaced ==
    [][runs' = runs =>
        /\ GitHubClient # "nil" => GitHubClient' = GitHubClient
        /\ HomebrewClient # "nil" => HomebrewClient' = HomebrewClient
        /\ GitHubClient' # GitHubClient =>
              /\ GitHubClient' = "real"
              /\ Running(release_Pipe)
              /\ ~SkipPublish
        /\ HomebrewClient' # HomebrewClient =>
              /\ HomebrewClient' = "real"
              /\ Running(homebrew_Pipe)
              /\ ~SkipPublish
              /\ \/ Config["homebrew.tap.owner"] # <<>>
                 \/ Config["homebrew.tap.name"] # <<>>
                 \/ Config["homebrew.tap.token"] # <<>>
        /\ SkipPublish => (GitHubClient' = GitHubClient /\ HomebrewClient' = HomebrewClient)]_vars

\* The Release pipe has published through the client that was injected, and
\* the Homebrew pipe has made one of its own.
C25_Witness ==
    /\ machine.GitHubClient = "injected"
    /\ GitHubClient = "injected"
    /\ HomebrewClient = "real"
    /\ \E i \in 1..Len(ran) : ran[i].pipe = release_Pipe /\ ran[i].ret = Nil
    /\ \E i \in 1..Len(ran) : ran[i].pipe = homebrew_Pipe /\ ran[i].ret = Nil

\* C26: of the invocations running at the same time for one project name
\* and version, at most one is past the start of Build with the output
\* directory as its own; no two of them work in the same outputDir.
C26_OutputDirOwnedByOne ==
    \A p \in DOMAIN procs, q \in DOMAIN procs :
        (/\ p # q
         /\ procs[p].pc \in {"building", "built"}
         /\ procs[q].pc \in {"building", "built"})
            => procs[p].BuildOutputDir # procs[q].BuildOutputDir

\* C27: a Notarize run that is not skipped and has an app calls its tools
\* in the order ditto (temp ZIP), notarytool submit, stapler staple, spctl
\* assess, each only after the one before it succeeded, and stops at the
\* first that fails, returning its error and leaving the temp ZIP; after
\* the four it removes the temp ZIP and returns nil, also when the removal
\* failed and the ZIP is still there.
C27_NotarizeStepsInOrder ==
    [][(/\ mode = "notarize.Pipe.Run"
        /\ stage = "pipe" /\ stage' = "done"
        /\ ~SkipNotarize
        /\ Artifacts.AppPath # <<>>)
       => LET order   == <<"ditto", "notarytool submit", "stapler staple", "spctl --assess">>
              failure == <<"failed to create temp ZIP for notarization", "notarization failed",
                           "stapling failed", "Gatekeeper assessment failed">>
              zipPath == <<"tmp", "/", "App", "-notarize", ".", "zip">>
          IN  /\ Len(calls') <= 4
              /\ \A i \in 1..Len(calls') : calls'[i].tool = order[i]
              /\ Len(calls') >= 1 => calls'[1].args = <<Artifacts.AppPath, zipPath>>
              /\ result' = Nil \/ result'.kind = "err"
              /\ result' = Nil => Len(calls') = 4
              /\ result'.kind = "err" =>
                    \E k \in 1..4 :
                        /\ result'.msg[1] = failure[k]
                        \* step k failed: the steps before it were made, none after it
                        /\ Len(calls') \in {k - 1, k}
                        \* the ZIP, once made, is left behind
                        /\ (zipPath \in files') <=> (k > 1)
              /\ zipPath \notin files' => (result' = Nil \/ result'.msg[1] = failure[1])]_vars

\* The four steps have gone through, the temp ZIP could not be removed, and
\* the pipe has returned nil.
C27_Witness ==
    /\ mode = "notarize.Pipe.Run"
    /\ stage = "done"
    /\ ~SkipNotarize
    /\ result = Nil
    /\ Len(calls) = 4
    /\ calls[4].tool = "spctl --assess"
    /\ <<"tmp", "/", "App", "-notarize", ".", "zip">> \in files

\* C28: an Archive run keeps what Artifacts.Packages held, in its order, and
\* appends behind it; when it returns nil it has appended one path for each
\* configured format, in the order of the formats: zip gives
\* <outputDir>/<appName>-<version>.zip, dmg <outputDir>/<appName>-<version>.dmg
\* and app gives Artifacts.AppPath (a format other than these three, which
\* validation refuses, gives nothing); when it fails it has appended the
\* paths of the formats before the failing one.
C28_ArchiveAppendsInOrder ==
    [][(/\ mode = "direct"
        /\ stage = "pipe" /\ stage' = "done"
        /\ ran'[Len(ran')].pipe = archive_Pipe)
       => LET formats   == Config["archive.formats"]
              IsKnown(f) == f \in {"zip", "dmg", "app"}
              known     == SelectSeq(formats, IsKnown)
              PathOf(f) == CASE f = "zip" -> <<"tmp", "/", "App", "-">> \o Version \o <<".", "zip">>
                             [] f = "dmg" -> <<"tmp", "/", "App", "-">> \o Version \o <<".", "dmg">>
                             [] f = "app" -> Artifacts.AppPath
              expected  == [i \in 1..Len(known) |-> PathOf(known[i])]
              before    == Artifacts.Packages
              after     == Artifacts'.Packages
              appended  == SubSeq(after, Len(before) + 1, Len(after))
          IN  /\ Len(after) >= Len(before)
              /\ SubSeq(after, 1, Len(before)) = before
              /\ Len(appended) <= Len(expected)
              /\ \A i \in 1..Len(appended) : appended[i] = expected[i]
              /\ result' = Nil => appended = expected
              /\ (result' = Nil /\ \A i \in 1..Len(formats) : IsKnown(formats[i]))
                    => Len(after) = Len(before) + Len(formats)]_vars

\* Archive, run for the formats dmg and zip on a context that already held a
\* package, has put the DMG and the ZIP behind it.
C28_Witness ==
    /\ mode = "direct"
    /\ stage = "done"
    /\ ran[1].pipe = archive_Pipe
    /\ result = Nil
    /\ Config["archive.formats"] = <<"dmg", "zip">>
    /\ Artifacts.Packages = << <<"tmp", "/", "A", ".", "zip">>,
                               <<"tmp", "/", "App", "-">> \o Version \o <<".", "dmg">>,
                               <<"tmp", "/", "App", "-">> \o Version \o <<".", "zip">> >>

\* C29: a pipe after Build that is not skipped looks at the Artifacts it needs
\* first: with AppPath empty Sign, Notarize and Archive return an error and
\* have called no tool; with Packages empty Release returns an error and has
\* neither made a client nor called GitHub; with Packages or AppPath empty
\* Homebrew returns an error and has written no cask, locally or in the tap.
C29_ArtifactsCheckedFirst ==
    [][(/\ mode = "direct"
        /\ stage = "pipe" /\ stage' = "done"
        /\ ~SkipPublish /\ ~SkipNotarize)
       => LET p == ran'[Len(ran')].pipe
          IN  /\ (p \in {sign_Pipe, notarize_Pipe, archive_Pipe} /\ Artifacts.AppPath = <<>>)
                    => /\ result'.kind = "err"
                       /\ calls' = calls
                       /\ UNCHANGED <<Artifacts, dirs, files>>
              /\ (p = release_Pipe /\ Artifacts.Packages = <<>>)
                    => /\ result'.kind = "err"
                       /\ calls' = calls
                       /\ UNCHANGED <<GitHubClient, releases, assets, Artifacts>>
              /\ (p = homebrew_Pipe /\ (Artifacts.Packages = <<>> \/ Artifacts.AppPath = <<>>))
                    => /\ result'.kind = "err"
                       /\ calls' = calls
                       /\ UNCHANGED <<HomebrewClient, files, dirs, tapFiles, Artifacts>>]_vars

\* Release was run with a token and no package, and returned its error.
C29_Witness ==
    /\ mode = "direct"
    /\ stage = "done"
    /\ ran[1].pipe = release_Pipe
    /\ Artifacts.Packages = <<>>
    /\ machine.GITHUB_TOKEN # <<>>
    /\ result = Errorf(<<"no packages to release">>)
    /\ calls = <<>>

\* C30: when Build runs with an empty Version it returns an error, and it has
\* created no directory, called no tool (xcodebuild least of all) and set no
\* field of Artifacts, which is as NewContext made it.
C30_EmptyVersionStopsBuild ==
    [][(Running(build_Pipe) /\ Version = <<>> /\ ran' # ran)
       => /\ ran'[Len(ran')].pipe = build_Pipe
          /\ ran'[Len(ran')].ret.kind = "err"
          /\ result'.kind = "err"
          /\ dirs' = dirs
          /\ files' = files
          /\ calls' = calls
          /\ Artifacts' = EmptyArtifacts]_vars

\* Build has run with an empty Version and a local project name, and it was
\* the version it refused.
C30_Witness ==
    /\ Version = <<>>
    /\ IsLocal(Config["project.name"])
    /\ ran # <<>>
    /\ ran[Len(ran)].pipe = build_Pipe
    /\ ran[Len(ran)].ret.kind = "err"
    /\ Contains(ran[Len(ran)].ret.msg, <<"version contains a path traversal or absolute path: ">>)
    /\ calls = <<>>
    /\ Artifacts = EmptyArtifacts

\* C31: when Homebrew generates a cask in a run whose Release returned nil,
\* there is a package of Artifacts.Packages that Release uploaded in this run
\* with success, that is an asset of the release tagged Version and is still
\* the file on disk, and every cask sent to the tap records the SHA-256 of
\* that file and, as its url, the download address of that tag and of that
\* file's name (path-escaped).
C31_CaskPointsAtUploadedAsset ==
    [][(/\ Running(homebrew_Pipe)
        /\ \E i \in 1..Len(ran) : ran[i].pipe = release_Pipe /\ ran[i].ret = Nil
        /\ Artifacts'.HomebrewCaskPath # <<>>)
       => \E k \in 1..Len(Artifacts.Packages) :
            LET pkg      == Artifacts.Packages[k]
                name     == Base(pkg)
                escaped  == [i \in 1..Len(name) |-> IF name[i] = " " THEN "%20" ELSE name[i]]
                shaLine  == <<"  sha256 ", "\"", "sha256(">> \o pkg \o <<")", "\"", "\n">>
                urlLine  == <<"  url ", "\"", "https://github.com/">>
                            \o Config["release.github.owner"] \o <<"/">>
                            \o Config["release.github.repo"] \o <<"/releases/download/">>
                            \o Version \o <<"/">> \o escaped \o <<"\"", "\n">>
            IN  /\ \E j \in 1..Len(calls) : /\ calls[j].tool = "UploadReleaseAsset"
                                            /\ calls[j].args[1] = pkg
                                            /\ calls[j].err = Nil
                /\ <<Version, name>> \in assets'
                /\ pkg \in files'
                /\ \A j \in (Len(calls) + 1)..Len(calls') :
                      calls'[j].tool \in {"CreateFile", "UpdateFile"}
                         => /\ Contains(calls'[j].content, shaLine)
                            /\ Contains(calls'[j].content, urlLine)]_vars

\* A run that published the release and then created the cask in the tap.
C31_Witness ==
    /\ stage = "done"
    /\ result = Nil
    /\ Artifacts.ReleaseURL # <<>>
    /\ Artifacts.HomebrewCaskPath # <<>>
    /\ \E i \in 1..Len(ran) : ran[i].pipe = release_Pipe /\ ran[i].ret = Nil
    /\ \E i \in 1..Len(ran) : ran[i].pipe = homebrew_Pipe /\ ran[i].ret = Nil
    /\ \E j \in 1..Len(calls) :
          /\ calls[j].tool = "CreateFile"
          /\ calls[j].err = Nil
          /\ Contains(calls[j].content, <<"sha256(">> \o SelectPackage(Artifacts.Packages).path \o <<")">>)

\* C32: in a RunAll run an execution pipe that is not skipped never runs on
\* a config string that still holds an env(NAME) reference: the strings Build,
\* Sign, Notarize, Release and Homebrew read are all resolved by the time the
\* pipe runs, validation having refused every other configuration.
C32_NoUnresolvedConsumed ==
    [][(mode = "RunAll" /\ stage = "execution" /\ ran' # ran)
       => LET p     == ran'[Len(ran')].pipe
              reads == CASE p = build_Pipe    -> {"project.name", "project.scheme", "build.configuration"}
                         [] p = sign_Pipe     -> {"sign.identity"}
                         [] p = notarize_Pipe -> IF SkipNotarize THEN {}
                                                 ELSE {"notarize.apple_id", "notarize.team_id",
                                                       "notarize.password"}
                         [] p = release_Pipe  -> IF SkipPublish THEN {}
                                                 ELSE {"release.github.owner", "release.github.repo",
                                                       "project.name"}
                         [] p = homebrew_Pipe -> IF SkipPublish THEN {}
                                                 ELSE {"homebrew.cask.name", "homebrew.cask.desc",
                                                       "homebrew.cask.homepage", "homebrew.cask.license",
                                                       "release.github.owner", "release.github.repo",
                                                       "project.name"}
                                                      \cup (IF isTapConfigured
                                                            THEN {"homebrew.tap.owner", "homebrew.tap.name",
                                                                  "homebrew.tap.token"}
                                                            ELSE {})
                         [] OTHER -> {}
          IN  \A k \in reads : \A i \in 1..(Len(Config[k]) - 3) :
                 SubSeq(Config[k], i, i + 3) # <<"e", "n", "v", "(">>]_vars

\* C33: in a RunAll run, a submission to the notary service comes after a
\* codesign call of the same run that signed Artifacts.AppPath, the app the
\* submitted ZIP was made of, with "--options runtime".
C33_SubmittedAppIsHardened ==
    mode = "RunAll" =>
        \A i \in 1..Len(calls) :
            calls[i].tool = "notarytool submit" =>
                /\ ~SkipNotarize
                /\ \E j \in 1..(i - 1) :
                      LET args == calls[j].args
                      IN  /\ calls[j].tool = "codesign"
                          /\ \E k \in 1..(Len(args) - 1) :
                                args[k] = <<"--options">> /\ args[k + 1] = <<"runtime">>
                          /\ \E k \in 1..(Len(args) - 2) :
                                args[k] = <<"--sign">> /\ args[k + 2] = Artifacts.AppPath
                /\ \E ran_i \in 1..Len(ran) : ran[ran_i].pipe = sign_Pipe /\ ran[ran_i].ret = Nil

\* RunAll has submitted the app to the notary service.
C33_Witness ==
    /\ mode = "RunAll"
    /\ ~SkipNotarize
    /\ \E i \in 1..Len(calls) : calls[i].tool = "notarytool submit"
    /\ \E i \in 1..Len(ran) : ran[i].pipe = notarize_Pipe /\ ran[i].ret = Nil

\* C34: when RunAll has returned nil with SkipPublish and SkipNotarize both
\* false, BuildOutputDir, ArchivePath and AppPath are set, Packages has as
\* many entries as archive.formats, ReleaseURL is set and the run made one
\* successful CreateRelease, HomebrewCaskPath is set and the cask file is
\* there, and the run made exactly one successful CreateFile or UpdateFile
\* on the tap when a tap field is configured, and none otherwise.
C34_CompleteRunLeavesAllArtifacts ==
    (mode = "RunAll" /\ stage = "done" /\ result = Nil /\ ~SkipPublish /\ ~SkipNotarize)
       => LET Ok(tools)     == {i \in 1..Len(calls) : calls[i].tool \in tools /\ calls[i].err = Nil}
              tapConfigured == \/ Config["homebrew.tap.owner"] # <<>>
                               \/ Config["homebrew.tap.name"] # <<>>
                               \/ Config["homebrew.tap.token"] # <<>>
          IN  /\ Artifacts.BuildOutputDir # <<>>
              /\ Artifacts.ArchivePath # <<>>
              /\ Artifacts.AppPath # <<>>
              /\ Len(Artifacts.Packages) = Len(Config["archive.formats"])
              /\ Artifacts.ReleaseURL # <<>>
              /\ Cardinality(Ok({"CreateRelease"})) = 1
              /\ Version \in releases
              /\ Artifacts.HomebrewCaskPath # <<>>
              /\ Artifacts.HomebrewCaskPath \in files
              /\ Cardinality(Ok({"CreateFile", "UpdateFile"})) = (IF tapConfigured THEN 1 ELSE 0)

\* RunAll has returned nil after publishing, the tap configured.
C34_Witness ==
    /\ mode = "RunAll"
    /\ stage = "done"
    /\ result = Nil
    /\ ~SkipPublish /\ ~SkipNotarize
    /\ Len(ran) = Len(ValidationPipes) + Len(ExecutionPipes)
    /\ Config["homebrew.tap.owner"] # <<>>
    /\ Len(Artifacts.Packages) = 2
    /\ \E i \in 1..Len(calls) : calls[i].tool = "UpdateFile" /\ calls[i].err = Nil

\* C35 as stated: a RunAll run that publishes gets past validation only with
\* zip or dmg among archive.formats, and so never has Homebrew fail for want
\* of a .zip or .dmg package after Release created the release.
C35_PublishingRequiresArchive ==
    (mode = "RunAll" /\ ~SkipPublish /\ \E i \in 1..Len(ran) : ran[i].pipe = build_Pipe)
       => /\ \E k \in 1..Len(Config["archive.formats"]) :
                Config["archive.formats"][k] \in {"zip", "dmg"}
          /\ ~(/\ \E i \in 1..Len(ran) : ran[i].pipe = release_Pipe /\ ran[i].ret = Nil
               /\ \E i \in 1..Len(ran) : /\ ran[i].pipe = homebrew_Pipe
                                         /\ Contains(ran[i].ret.msg, <<"no .zip or .dmg">>))

\* C35: what validation does require of archive.formats in a RunAll run is
\* that it is not empty and holds only dmg, zip and app; when Homebrew fails
\* for want of a .zip or .dmg package, every configured format is app, and
\* Release has by then returned nil, the release created and nothing
\* uploaded to it.
C35_ValidationAdmitsAppOnly ==
    (mode = "RunAll" /\ \E i \in 1..Len(ran) : ran[i].pipe = build_Pipe)
       => LET formats == Config["archive.formats"]
          IN  /\ formats # <<>>
              /\ \A k \in 1..Len(formats) : formats[k] \in {"dmg", "zip", "app"}
              /\ \A i \in 1..Len(ran) :
                    (ran[i].pipe = homebrew_Pipe /\ Contains(ran[i].ret.msg, <<"no .zip or .dmg">>))
                       => /\ \A k \in 1..Len(formats) : formats[k] = "app"
                          /\ ~SkipPublish
                          /\ \E j \in 1..(i - 1) : ran[j].pipe = release_Pipe /\ ran[j].ret = Nil
                          /\ Version \in releases
                          /\ Artifacts.ReleaseURL # <<>>
                          /\ \A j \in 1..Len(calls) : calls[j].tool # "UploadReleaseAsset"

\* RunAll with archive.formats of app alone has created the release and then
\* failed at Homebrew.
C35_Witness ==
    /\ mode = "RunAll"
    /\ stage = "done"
    /\ ~SkipPublish
    /\ Config["archive.formats"] = <<"app">>
    /\ ran[Len(ran)].pipe = homebrew_Pipe
    /\ Contains(ran[Len(ran)].ret.msg, <<"no .zip or .dmg">>)
    /\ result.kind = "err"
    /\ Version \in releases
    /\ \E j \in 1..Len(calls) : calls[j].tool = "CreateRelease" /\ calls[j].err = Nil

\* C36: the Homebrew pipe calls CreateFile only after a read of
\* Casks/<token>.rb to which the tap answered 404 Not Found, the file not
\* being in the tap; after a read that failed in another way no CreateFile
\* follows, whatever the cask token, the tap owner and the tap name are.
C36_CreateOnlyWhenNotFound ==
    [][(mode = "direct" /\ stage = "pipe" /\ stage' = "done"
        /\ ran'[Len(ran')].pipe = homebrew_Pipe)
       => \A i \in 1..Len(calls') :
             calls'[i].tool = "CreateFile"
                => /\ i > 1
                   /\ calls'[i - 1].tool = "GetFileContents"
                   /\ LET msg == calls'[i - 1].err.msg
                      IN  /\ Len(msg) >= 2
                          /\ SubSeq(msg, Len(msg) - 1, Len(msg)) = <<"404", " Not Found">>
                   /\ \A f \in tapFiles : f.path # calls'[i].args[3]]_vars

\* C37 as stated: Artifacts.Packages never holds a path twice, and within a
\* run Release never tries to upload the same package twice.
C37_PackagesDistinct ==
    /\ \A i, j \in 1..Len(Artifacts.Packages) :
          Artifacts.Packages[i] = Artifacts.Packages[j] => i = j
    /\ \A i, j \in 1..Len(calls) :
          (/\ calls[i].tool = "UploadReleaseAsset"
           /\ calls[j].tool = "UploadReleaseAsset"
           /\ calls[i].args[1] = calls[j].args[1]) => i = j

\* C37: once Archive has returned nil, Packages has an entry for every
\* listed format that is zip, dmg or app, a repeated format giving the same
\* path again: two entries are equal exactly when their formats are; and
\* Release tries to upload a path at most as often as Packages holds it.
C37_PackagesRepeatWithFormats ==
    LET IsKnown(f) == f \in {"zip", "dmg", "app"}
        known      == SelectSeq(Config["archive.formats"], IsKnown)
        pkgs       == Artifacts.Packages
        Uploads(p) == {i \in 1..Len(calls) : calls[i].tool = "UploadReleaseAsset"
                                             /\ calls[i].args[1] = p}
        Entries(p) == {i \in 1..Len(pkgs) : pkgs[i] = p}
    IN  /\ (mode \in {"RunAll", "RunExecution"}
            /\ \E i \in 1..Len(ran) : ran[i].pipe = archive_Pipe /\ ran[i].ret = Nil)
              => /\ Len(pkgs) = Len(known)
                 /\ \A i, j \in 1..Len(pkgs) : (pkgs[i] = pkgs[j]) <=> (known[i] = known[j])
        /\ mode \in {"RunAll", "RunExecution"}
              => \A i \in 1..Len(calls) :
                    calls[i].tool = "UploadReleaseAsset"
                       => Cardinality(Uploads(calls[i].args[1])) <= Cardinality(Entries(calls[i].args[1]))

\* RunAll with archive.formats of zip twice: Packages holds the ZIP twice and
\* Release has tried to upload it a second time.
C37_Witness ==
    /\ mode = "RunAll"
    /\ Config["archive.formats"] = <<"zip", "zip">>
    /\ Len(Artifacts.Packages) = 2
    /\ Artifacts.Packages[1] = Artifacts.Packages[2]
    /\ Cardinality({i \in 1..Len(calls) : /\ calls[i].tool = "UploadReleaseAsset"
                                          /\ calls[i].args[1] = Artifacts.Packages[1]}) = 2

\* C38 as stated: when the Notarize pipe returns nil, or returns the error
\* of a failed submit, staple or assess, the temp ZIP is no longer in
\* outputDir, unless a removal was tried and failed (which the pipe tries on
\* the way to returning nil only).
C38_TempZipGoneOnReturn ==
    [][(/\ mode = "notarize.Pipe.Run"
        /\ stage = "pipe" /\ stage' = "done"
        /\ ~SkipNotarize
        /\ Artifacts.AppPath # <<>>)
       => ((/\ result'.kind = "err"
            /\ result'.msg[1] \in {"notarization failed", "stapling failed",
                                   "Gatekeeper assessment failed"})
              => <<"tmp", "/", "App", "-notarize", ".", "zip">> \notin files')]_vars

\* C38: the temp ZIP is removed on the way to returning nil only, and may
\* stay if that removal fails; when submit, staple or assess fails the pipe
\* returns the error with the temp ZIP still in outputDir; no other file
\* comes or goes.
C38_TempZipLeftOnFailure ==
    [][(/\ mode = "notarize.Pipe.Run"
        /\ stage = "pipe" /\ stage' = "done"
        /\ ~SkipNotarize
        /\ Artifacts.AppPath # <<>>)
       => LET zipPath == <<"tmp", "/", "App", "-notarize", ".", "zip">>
          IN  /\ files' \ {zipPath} = files \ {zipPath}
              /\ (/\ result'.kind = "err"
                  /\ result'.msg[1] \in {"notarization failed", "stapling failed",
                                         "Gatekeeper assessment failed"})
                    => /\ zipPath \in files'
                       /\ calls'[1].tool = "ditto"
              /\ (zipPath \in files /\ zipPath \notin files') => result' = Nil]_vars

\* Stapling has failed and the pipe has returned, the temp ZIP left behind.
C38_Witness ==
    /\ mode = "notarize.Pipe.Run"
    /\ stage = "done"
    /\ result.kind = "err"
    /\ result.msg[1] = "stapling failed"
    /\ Len(calls) = 3
    /\ <<"tmp", "/", "App", "-notarize", ".", "zip">> \in files

====
